---- MODULE Spec2Model ----
(***************************************************************************)
(* A state-machine model of sqlitevis: the B-tree visualizer               *)
(* (src/src/web/js/visualizer.js), the event manager                       *)
(* (src/src/web/js/events.js) and the application wiring                   *)
(* (src/unnamed/part_000, SQLiteVisApp.connectEvents).                     *)
(*                                                                         *)
(* The visualizer object is the record Vis; every method of the class is   *)
(* an operator from a visualizer record to the visualizer record the       *)
(* method leaves behind.  Time is relative: a pending setTimeout callback  *)
(* carries the milliseconds that remain until it is due.                   *)
(***************************************************************************)
EXTENDS Integers, Sequences, FiniteSets, TLC

VARIABLES
    nodes,              \* BTreeVisualizer.nodes: Map pageNum -> node
    highlightedNodes,   \* BTreeVisualizer.highlightedNodes: Set of pageNum
    timeouts,           \* callbacks scheduled with setTimeout, not yet run
    showTransitions,    \* BTreeVisualizer.showTransitions
    animationSpeed,     \* BTreeVisualizer.animationSpeed, in tenths (10 = 1.0)
    pageSize,           \* BTreeVisualizer.pageSize
    clientWidth,        \* canvas.clientWidth, read by layout()
    pageCount,          \* text of the #page-count element, written by draw()
    painted,            \* what each draw() call of the last step painted
    fault,              \* how the last step ended: "none", "TypeError", "hang"
    created,            \* history: insert/delete highlights and their age
    nodeInfo,           \* the #node-info panel: {} hidden, {p} showing page p
    events_enabled,     \* sqlite_bridge.c: static int events_enabled
    registry,           \* EventManager.listeners: callbacks by type and '*'
    called,             \* history: the callbacks the last observed
                        \* handleEvent called, and the log length each saw
    app,                \* SQLiteVisApp: sqliteModule, output panel, status,
                        \* calls made to the executors, mock timers pending
    events,             \* EventManager.events
    eventCount,         \* EventManager.eventCount
    eventCountText,     \* text of the #event-count element (updateStats)
    logChildren,        \* number of children of the #event-log element
    threw,              \* did the last call of the event entry point throw
    lastOp,             \* the operation or callback that ran last
    replica             \* a second, independent visualizer fed the same records

vars == <<nodes, highlightedNodes, timeouts, showTransitions, animationSpeed,
          pageSize, clientWidth, pageCount, painted, fault, created, nodeInfo,
          events_enabled, app, registry, called, events, eventCount,
          eventCountText, logChildren, threw, lastOp, replica>>

visVars == <<nodes, highlightedNodes, timeouts, showTransitions, animationSpeed,
             pageSize, clientWidth, pageCount, painted, fault, created,
             nodeInfo>>

emVars == <<events, eventCount, eventCountText, logChildren, threw>>

----------------------------------------------------------------------------
(* Bounds of the model *)

\* cells held by the whole store: addCell is offered while fewer are held
MaxCells == 2
\* the event counter: handleEvent is offered while eventCount is below it
MaxEvents == 2
\* pending setTimeout callbacks: a highlight is offered while fewer are pending
MaxTimers == 2
\* milliseconds that pass in one Tick
TickMs == 250
\* entries the breadth-first traversal of buildLevels may dequeue
MaxVisits == 8

\* characters of an SQL text in the editor
MaxSql == 3

\* callbacks registered in one list: on and onAll are offered below it
MaxListeners == 2

\* page numbers the engine reports; page 1 is the root
Pages == {1, 2}
\* page types: 0 interior, 1 leaf
PageTypes == {0, 1}
\* key lengths of inserted cells
KeyLens == {8, 16}
\* cell indexes carried by insert/delete/split records: negative, in range,
\* at the end and beyond the end of a cell list
CellIdxs == (0 - 1) .. MaxCells
\* animation speeds the slider is set to, in tenths: 1.0 and 2.0
Speeds == {10, 20}

----------------------------------------------------------------------------
(* Program constants *)

rootPage == 1
nodeWidth == 120
nodeHeight == 60
levelHeight == 120
horizontalSpacing == 40
topMargin == 50
defaultPageSize == 4096
insertHighlightMs == 500
deleteHighlightMs == 500
splitHighlightMs == 1000
logLimit == 1000

----------------------------------------------------------------------------
(* JavaScript helpers *)

Min(a, b) == IF a < b THEN a ELSE b
Max(a, b) == IF a > b THEN a ELSE b

\* Array.prototype.splice: the relative start index, clamped to 0..len
spliceStart(len, start) ==
    IF start < 0 THEN Max(len + start, 0) ELSE Min(start, len)

\* a variant of spliceInsert that pushes the item at the end of the array
spliceInsert_push(arr, start, item) == Append(arr, item)

\* arr.splice(start, 0, item): the array afterwards
spliceInsert(arr, start, item) ==
    LET s == spliceStart(Len(arr), start)
    IN  SubSeq(arr, 1, s) \o <<item>> \o SubSeq(arr, s + 1, Len(arr))

\* arr.splice(start, 1): the array afterwards
spliceDeleteOne(arr, start) ==
    LET s == spliceStart(Len(arr), start)
        n == Min(1, Len(arr) - s)
    IN  SubSeq(arr, 1, s) \o SubSeq(arr, s + n + 1, Len(arr))

\* arr.splice(start): what stays in the array and what is returned
spliceFrom(arr, start) ==
    LET s == spliceStart(Len(arr), start)
    IN  [kept |-> SubSeq(arr, 1, s), removed |-> SubSeq(arr, s + 1, Len(arr))]

\* Map.prototype.delete
mapDelete(m, k) == [p \in DOMAIN m \ {k} |-> m[p]]

\* Map.prototype.set
mapSet(m, k, v) == [p \in DOMAIN m \cup {k} |-> IF p = k THEN v ELSE m[p]]

emptyMap == [p \in {} |-> 0]

----------------------------------------------------------------------------
(* The visualizer record *)

Vis == [nodes |-> nodes, highlightedNodes |-> highlightedNodes,
        timeouts |-> timeouts, showTransitions |-> showTransitions,
        animationSpeed |-> animationSpeed, pageSize |-> pageSize,
        clientWidth |-> clientWidth, pageCount |-> pageCount,
        painted |-> painted, fault |-> fault, created |-> created,
        nodeInfo |-> nodeInfo]

\* the visualizer's fields become those of the record W
SetVis(W) ==
    /\ nodes' = W.nodes
    /\ highlightedNodes' = W.highlightedNodes
    /\ timeouts' = W.timeouts
    /\ showTransitions' = W.showTransitions
    /\ animationSpeed' = W.animationSpeed
    /\ pageSize' = W.pageSize
    /\ clientWidth' = W.clientWidth
    /\ pageCount' = W.pageCount
    /\ painted' = W.painted
    /\ fault' = W.fault
    /\ created' = W.created
    /\ nodeInfo' = W.nodeInfo

\* the visualizer's fields are those of the record W
IsVis(W) ==
    /\ nodes = W.nodes
    /\ highlightedNodes = W.highlightedNodes
    /\ timeouts = W.timeouts
    /\ showTransitions = W.showTransitions
    /\ animationSpeed = W.animationSpeed
    /\ pageSize = W.pageSize
    /\ clientWidth = W.clientWidth
    /\ pageCount = W.pageCount
    /\ painted = W.painted
    /\ fault = W.fault
    /\ created = W.created
    /\ nodeInfo = W.nodeInfo

\* new BTreeVisualizer(canvasId) on a canvas of width w; the constructor's
\* setupCanvas() ends in one draw()
constructor(w) ==
    [nodes |-> emptyMap, highlightedNodes |-> {}, timeouts |-> {},
     showTransitions |-> TRUE, animationSpeed |-> 10,
     pageSize |-> defaultPageSize, clientWidth |-> w, pageCount |-> 0,
     painted |-> <<[nodes |-> emptyMap, lines |-> {}, highlighted |-> {}]>>,
     fault |-> "none", created |-> {}, nodeInfo |-> {}]

\* a step starts with nothing painted yet and no exception raised
begin(V) == [V EXCEPT !.painted = <<>>, !.fault = "none"]

\* statements run only while no exception has been raised in this step
ok(V) == V.fault = "none"

----------------------------------------------------------------------------
(* Layout: visualizer.js layout() and buildLevels() *)

\* a variant of queuedChildren without the guard of line 233: every child
\* page number is queued, live or not
queuedChildren_unguarded(ns, children) == children

\* the children a traversal step enqueues: those the node table resolves
\* (if (child) queue.push(...))
queuedChildren(ns, children) == SelectSeq(children, LAMBDA c : c \in DOMAIN ns)

\* the body of buildLevels' while loop, run until the queue is empty; an
\* entry that is no node raises a TypeError on node.children; a traversal
\* that has not emptied its queue after MaxVisits entries never returns
RECURSIVE buildLevelsFrom(_, _, _, _)
buildLevelsFrom(ns, queue, levels, fuel) ==
    IF queue = <<>> THEN [levels |-> levels, fault |-> "none"]
    ELSE IF fuel = 0 THEN [levels |-> levels, fault |-> "hang"]
    ELSE LET page == Head(queue).page
             level == Head(queue).level
             levels1 == IF Len(levels) < level + 1
                           THEN Append(levels, <<>>) ELSE levels
             levels2 == [levels1 EXCEPT ![level + 1] = Append(@, page)]
         IN  IF page \notin DOMAIN ns
                THEN [levels |-> levels2, fault |-> "TypeError"]
                ELSE LET kids == queuedChildren(ns, ns[page].children)
                         more == [i \in 1 .. Len(kids) |->
                                    [page |-> kids[i], level |-> level + 1]]
                     IN  buildLevelsFrom(ns, Tail(queue) \o more, levels2,
                                         fuel - 1)

buildLevels(ns, root) ==
    buildLevelsFrom(ns, <<[page |-> root, level |-> 0]>>, <<>>, MaxVisits)

\* the places (level, position), both from 1, at which page p stands in levels
placesOf(levels, p) ==
    {pl \in UNION {{<<i, j>> : j \in 1 .. Len(levels[i])} : i \in 1 .. Len(levels)} :
        levels[pl[1]][pl[2]] = p}

\* the place assigned last by the two nested forEach loops
lastPlace(places) ==
    CHOOSE pl \in places : \A q \in places :
        q[1] < pl[1] \/ (q[1] = pl[1] /\ q[2] <= pl[2])

\* x of the node at position j of a level of n nodes
levelX(w, n, j) ==
    ((w - n * (nodeWidth + horizontalSpacing)) \div 2)
        + (j - 1) * (nodeWidth + horizontalSpacing)

\* y of the nodes of the i-th level
levelY(i) == topMargin + (i - 1) * levelHeight

\* the node table with x and y assigned level by level
place(ns, levels, w) ==
    [p \in DOMAIN ns |->
        LET places == placesOf(levels, p)
        IN  IF places = {} THEN ns[p]
            ELSE LET pl == lastPlace(places)
                 IN  [ns[p] EXCEPT !.x = levelX(w, Len(levels[pl[1]]), pl[2]),
                                   !.y = levelY(pl[1])]]

layout(V) ==
    IF ~ok(V) THEN V
    ELSE IF DOMAIN V.nodes = {} THEN V
    ELSE IF rootPage \notin DOMAIN V.nodes THEN V
    ELSE LET b == buildLevels(V.nodes, rootPage)
         IN  IF b.fault # "none" THEN [V EXCEPT !.fault = b.fault]
             ELSE [V EXCEPT !.nodes = place(V.nodes, b.levels, V.clientWidth)]

----------------------------------------------------------------------------
(* Painting: visualizer.js draw(), drawConnections(), drawNode() *)

\* the children drawConnections draws a line to: those the node table
\* resolves (if (!child) return)
connectedChildren(ns, children) == SelectSeq(children, LAMBDA c : c \in DOMAIN ns)

\* the lines drawn by drawConnections over all nodes, as (parent, child)
drawConnections(ns) ==
    UNION {{<<p, connectedChildren(ns, ns[p].children)[i]>> :
                i \in 1 .. Len(connectedChildren(ns, ns[p].children))} :
           p \in DOMAIN ns}

\* draw(): paints the connections and the nodes and writes the page count;
\* reading child.x of a child that is no node raises a TypeError
draw(V) ==
    IF ~ok(V) THEN V
    ELSE IF \E l \in drawConnections(V.nodes) : l[2] \notin DOMAIN V.nodes
        THEN [V EXCEPT !.fault = "TypeError"]
    ELSE [V EXCEPT
            !.painted = Append(@, [nodes |-> V.nodes,
                                   lines |-> drawConnections(V.nodes),
                                   highlighted |-> V.highlightedNodes
                                                      \cap DOMAIN V.nodes]),
            !.pageCount = Cardinality(DOMAIN V.nodes)]

----------------------------------------------------------------------------
(* Highlights: animateInsertion, animateDeletion, animateSplit *)

\* a variant of timeoutDelay that leaves the animation speed out
timeoutDelay_ignoresSpeed(base, speed) == base

\* the delay handed to setTimeout: base / animationSpeed, in milliseconds
timeoutDelay(base, speed) == (base * 10) \div speed

\* setTimeout(() => { delete pages; draw() }, delay).  stale is history: it
\* records that clear() ran while the callback was pending.  Two callbacks
\* for the same pages due at the same instant have the same effect and are
\* kept as one.
setTimeout(V, pages, delay) ==
    [V EXCEPT !.timeouts = @ \cup
        {[pages |-> pages, remaining |-> delay, stale |-> FALSE]}]

\* history: the latest highlight an insert or a delete made on page p, with
\* its age and the animationSpeed it was created under; an earlier entry for
\* p is replaced
noteCreated(V, p) ==
    [V EXCEPT !.created =
        {d \in @ : d.page # p}
        \cup {[page |-> p, age |-> 0, speed |-> V.animationSpeed]}]

\* history: a split highlight on pages ps follows the entries on them, which
\* are dropped
noteSuperseded(V, ps) ==
    [V EXCEPT !.created = {d \in @ : d.page \notin ps}]

animateInsertion(V, pageNum, cellIdx) ==
    noteCreated(
        setTimeout([V EXCEPT !.highlightedNodes = @ \cup {pageNum}],
                   {pageNum}, timeoutDelay(insertHighlightMs, V.animationSpeed)),
        pageNum)

animateDeletion(V, pageNum, cellIdx) ==
    noteCreated(
        setTimeout([V EXCEPT !.highlightedNodes = @ \cup {pageNum}],
                   {pageNum}, timeoutDelay(deleteHighlightMs, V.animationSpeed)),
        pageNum)

animateSplit(V, originalPage, newPage, splitCell) ==
    noteSuperseded(
        setTimeout([V EXCEPT !.highlightedNodes = @ \cup {originalPage, newPage}],
                   {originalPage, newPage},
                   timeoutDelay(splitHighlightMs, V.animationSpeed)),
        {originalPage, newPage})

\* a variant of timeoutCallback that also drops the nodes of the pages whose
\* highlight ends
timeoutCallback_dropsPages(V, t) ==
    draw([V EXCEPT !.highlightedNodes = @ \ t.pages,
                   !.nodes = [p \in DOMAIN @ \ t.pages |-> @[p]]])

\* a variant of timeoutCallback that repaints and leaves the highlight set
\* as it is
timeoutCallback_keepsHighlight(V, t) == draw(V)

\* the callback of a timeout t: the pages leave the highlight set, draw()
timeoutCallback(V, t) ==
    draw([V EXCEPT !.highlightedNodes = @ \ t.pages])

----------------------------------------------------------------------------
(* The store operations: addPage, addCell, deleteCell, splitPage, clear *)

newNode(pageNum, pageType) ==
    [page |-> pageNum, type |-> pageType, cells |-> <<>>, parent |-> "null",
     children |-> <<>>, x |-> 0, y |-> 0, expanded |-> TRUE]

newCell(cellIdx, keyLen) == [idx |-> cellIdx, keyLen |-> keyLen, key |-> cellIdx]

\* a variant of addPage that keeps the node of a page that is already live
addPage_keepsOld(V, pageNum, pageType) ==
    IF ~ok(V) THEN V
    ELSE IF pageNum \in DOMAIN V.nodes THEN draw(layout(V))
    ELSE draw(layout([V EXCEPT
            !.nodes = mapSet(@, pageNum, newNode(pageNum, pageType))]))

addPage(V, pageNum, pageType) ==
    IF ~ok(V) THEN V
    ELSE draw(layout([V EXCEPT
            !.nodes = mapSet(@, pageNum, newNode(pageNum, pageType))]))

\* a variant of addCell that starts the highlight whatever showTransitions is
addCell_alwaysAnimates(V, pageNum, cellIdx, keyLen) ==
    IF ~ok(V) \/ pageNum \notin DOMAIN V.nodes THEN V
    ELSE LET V1 == [V EXCEPT !.nodes[pageNum].cells =
                        spliceInsert(@, cellIdx, newCell(cellIdx, keyLen))]
         IN  draw(layout(animateInsertion(V1, pageNum, cellIdx)))

addCell(V, pageNum, cellIdx, keyLen) ==
    IF ~ok(V) \/ pageNum \notin DOMAIN V.nodes THEN V
    ELSE LET V1 == [V EXCEPT !.nodes[pageNum].cells =
                        spliceInsert(@, cellIdx, newCell(cellIdx, keyLen))]
             V2 == IF V1.showTransitions
                      THEN animateInsertion(V1, pageNum, cellIdx) ELSE V1
         IN  draw(layout(V2))

\* a variant of deleteCell that starts the highlight before it looks the
\* page up
deleteCell_animatesFirst(V, pageNum, cellIdx) ==
    IF ~ok(V) THEN V
    ELSE LET V1 == IF V.showTransitions
                      THEN animateDeletion(V, pageNum, cellIdx) ELSE V
         IN  IF pageNum \notin DOMAIN V.nodes THEN V1
             ELSE draw(layout([V1 EXCEPT !.nodes[pageNum].cells =
                                            spliceDeleteOne(@, cellIdx)]))

\* a variant of deleteCell that removes the cell only while transitions are
\* shown, so the store would depend on a display setting
deleteCell_onlyShown(V, pageNum, cellIdx) ==
    IF ~ok(V) \/ pageNum \notin DOMAIN V.nodes THEN V
    ELSE IF V.showTransitions
         THEN LET V1 == animateDeletion(V, pageNum, cellIdx)
                  V2 == [V1 EXCEPT !.nodes[pageNum].cells = spliceDeleteOne(@, cellIdx)]
              IN  draw(layout(V2))
         ELSE draw(layout(V))

deleteCell(V, pageNum, cellIdx) ==
    IF ~ok(V) \/ pageNum \notin DOMAIN V.nodes THEN V
    ELSE LET V1 == IF V.showTransitions
                      THEN animateDeletion(V, pageNum, cellIdx) ELSE V
             V2 == [V1 EXCEPT !.nodes[pageNum].cells = spliceDeleteOne(@, cellIdx)]
         IN  draw(layout(V2))

\* original is the node object read before addPage; when newPage is
\* originalPage, addPage has put a fresh node under that key and the splice
\* empties the detached old object
\* a variant of splitPage that also enters the new page in the children list
\* of the original
splitPage_linksChild(V, originalPage, newPage, splitCell) ==
    IF ~ok(V) \/ originalPage \notin DOMAIN V.nodes THEN V
    ELSE LET original == V.nodes[originalPage]
             V1 == addPage(V, newPage, original.type)
             sp == spliceFrom(original.cells, splitCell)
             V2 == IF newPage = originalPage
                      THEN [V1 EXCEPT !.nodes[newPage].cells = sp.removed]
                      ELSE [V1 EXCEPT !.nodes[originalPage].cells = sp.kept,
                                      !.nodes[originalPage].children =
                                            Append(@, newPage),
                                      !.nodes[newPage].cells = sp.removed]
             V3 == IF V2.showTransitions
                      THEN animateSplit(V2, originalPage, newPage, splitCell)
                      ELSE V2
         IN  IF ~ok(V1) THEN V1 ELSE draw(layout(V3))

splitPage(V, originalPage, newPage, splitCell) ==
    IF ~ok(V) \/ originalPage \notin DOMAIN V.nodes THEN V
    ELSE LET original == V.nodes[originalPage]
             V1 == addPage(V, newPage, original.type)
             sp == spliceFrom(original.cells, splitCell)
             V2 == IF newPage = originalPage
                      THEN [V1 EXCEPT !.nodes[newPage].cells = sp.removed]
                      ELSE [V1 EXCEPT !.nodes[originalPage].cells = sp.kept,
                                      !.nodes[newPage].cells = sp.removed]
             V3 == IF V2.showTransitions
                      THEN animateSplit(V2, originalPage, newPage, splitCell)
                      ELSE V2
         IN  IF ~ok(V1) THEN V1 ELSE draw(layout(V3))

\* clear(): the pending setTimeout callbacks are not cancelled; history
\* marks them stale and forgets the highlights the clear() removed
clear(V) ==
    IF ~ok(V) THEN V
    ELSE draw([V EXCEPT !.nodes = emptyMap, !.highlightedNodes = {},
                        !.timeouts = {[t EXCEPT !.stale = TRUE] : t \in @},
                        !.created = {}])

\* a variant of setAnimationSpeed that also rescales the delay left of the
\* callbacks that are pending
setAnimationSpeed_rescales(V, speed) ==
    [V EXCEPT !.animationSpeed = speed,
              !.timeouts = {[t EXCEPT !.remaining =
                                (@ * V.animationSpeed) \div speed] : t \in @}]

setAnimationSpeed(V, speed) == [V EXCEPT !.animationSpeed = speed]

setShowTransitions(V, show) == [V EXCEPT !.showTransitions = show]

\* getNodeAtPosition(x, y): the nodes whose rectangle holds the point, bounds
\* included; the code returns the first of them in the Map's iteration order
getNodeAtPosition(V, x, y) ==
    {p \in DOMAIN V.nodes :
        /\ x >= V.nodes[p].x /\ x <= V.nodes[p].x + nodeWidth
        /\ y >= V.nodes[p].y /\ y <= V.nodes[p].y + nodeHeight}

showNodeInfo(V, p) == [V EXCEPT !.nodeInfo = {p}]

hideNodeInfo(V) == [V EXCEPT !.nodeInfo = {}]

\* a variant of toggleNodeExpansion that collapses the node by dropping what
\* it holds
toggleNodeExpansion_dropsCells(V, p) ==
    draw(layout([V EXCEPT !.nodes[p].expanded = ~@, !.nodes[p].cells = <<>>]))

toggleNodeExpansion(V, p) ==
    draw(layout([V EXCEPT !.nodes[p].expanded = ~@]))

\* the 'resize' listener: the canvas takes the container's width and is
\* repainted; positions are left as they are
resize(V, w) == draw([V EXCEPT !.clientWidth = w])

\* a variant of pageFree that leaves the repaint out
pageFree_noDraw(V, pageNum) ==
    IF ~ok(V) THEN V
    ELSE layout([V EXCEPT !.nodes = mapDelete(@, pageNum)])

\* the PAGE_FREE listener of connectEvents
pageFree(V, pageNum) ==
    IF ~ok(V) THEN V
    ELSE draw(layout([V EXCEPT !.nodes = mapDelete(@, pageNum)]))

----------------------------------------------------------------------------
(* The event manager: events.js *)

\* the event codes of the bridge's EventType enum
BTREE_OPEN == 0
BTREE_CLOSE == 1
BTREE_INSERT == 2
BTREE_DELETE == 3
BTREE_SPLIT == 4
BTREE_BALANCE == 5
PAGE_ALLOCATE == 6
PAGE_FREE == 7
PARSE_START == 8
PARSE_TOKEN == 9
PARSE_COMPLETE == 10
VDBE_START == 11
VDBE_OPCODE == 12
VDBE_COMPLETE == 13

eventTypeNames ==
    [c \in 0 .. 13 |->
        CASE c = 0 -> "BTREE_OPEN"      [] c = 1 -> "BTREE_CLOSE"
          [] c = 2 -> "BTREE_INSERT"    [] c = 3 -> "BTREE_DELETE"
          [] c = 4 -> "BTREE_SPLIT"     [] c = 5 -> "BTREE_BALANCE"
          [] c = 6 -> "PAGE_ALLOCATE"   [] c = 7 -> "PAGE_FREE"
          [] c = 8 -> "PARSE_START"     [] c = 9 -> "PARSE_TOKEN"
          [] c = 10 -> "PARSE_COMPLETE" [] c = 11 -> "VDBE_START"
          [] c = 12 -> "VDBE_OPCODE"    [] OTHER -> "VDBE_COMPLETE"]

eventCategories ==
    [c \in 0 .. 13 |-> IF c <= 7 THEN "btree" ELSE IF c <= 10 THEN "parse" ELSE "vdbe"]

\* this.eventTypeNames[eventType] || 'UNKNOWN'
typeNameOf(eventType) ==
    IF eventType \in DOMAIN eventTypeNames THEN eventTypeNames[eventType] ELSE "UNKNOWN"

\* this.eventCategories[eventType] || 'other'
categoryOf(eventType) ==
    IF eventType \in DOMAIN eventCategories THEN eventCategories[eventType] ELSE "other"

\* A payload text is its syntax ("json": JSON.parse returns value; anything
\* else: JSON.parse throws a SyntaxError) and the value it denotes.
jsonText(value) == [syntax |-> "json", value |-> value]
garbageText == [syntax |-> "garbage", value |-> emptyMap]

JSONparse(dataJson) ==
    IF dataJson.syntax = "json" THEN [threw |-> FALSE, value |-> dataJson.value]
    ELSE [threw |-> TRUE, value |-> emptyMap]

\* a variant of listeners in which the balance event, an informational code,
\* also has the page-free listener
listeners_balanceFrees ==
    [c \in {BTREE_OPEN, PAGE_ALLOCATE, PAGE_FREE, BTREE_INSERT, BTREE_DELETE,
            BTREE_SPLIT, BTREE_BALANCE} |->
        CASE c = BTREE_OPEN -> <<"onBtreeOpen">>
          [] c = PAGE_ALLOCATE -> <<"onPageAllocate">>
          [] c = PAGE_FREE -> <<"onPageFree">>
          [] c = BTREE_BALANCE -> <<"onPageFree">>
          [] c = BTREE_INSERT -> <<"onBtreeInsert">>
          [] c = BTREE_DELETE -> <<"onBtreeDelete">>
          [] OTHER -> <<"onBtreeSplit">>]

\* the listeners registered by SQLiteVisApp.connectEvents, by event type, in
\* registration order; no wildcard listener is registered
listeners ==
    [c \in {BTREE_OPEN, PAGE_ALLOCATE, PAGE_FREE, BTREE_INSERT, BTREE_DELETE,
            BTREE_SPLIT} |->
        CASE c = BTREE_OPEN -> <<"onBtreeOpen">>
          [] c = PAGE_ALLOCATE -> <<"onPageAllocate">>
          [] c = PAGE_FREE -> <<"onPageFree">>
          [] c = BTREE_INSERT -> <<"onBtreeInsert">>
          [] c = BTREE_DELETE -> <<"onBtreeDelete">>
          [] OTHER -> <<"onBtreeSplit">>]

\* one registered callback applied to an event
callListener(V, name, e) ==
    IF ~ok(V) THEN V
    ELSE CASE name = "onBtreeOpen" -> [V EXCEPT !.pageSize = e.data.pageSize]
           [] name = "onPageAllocate" -> addPage(V, e.data.page, e.data.type)
           [] name = "onPageFree" -> pageFree(V, e.data.page)
           [] name = "onBtreeInsert" ->
                addCell(V, e.data.page, e.data.cell, e.data.keyLen)
           [] name = "onBtreeDelete" -> deleteCell(V, e.data.page, e.data.cell)
           [] OTHER ->
                splitPage(V, e.data.originalPage, e.data.newPage, e.data.splitCell)

RECURSIVE callEach(_, _, _)
callEach(V, names, e) ==
    IF names = <<>> THEN V
    ELSE callEach(callListener(V, Head(names), e), Tail(names), e)

\* this.listeners.get(type) || []
listenersFor(type) == IF type \in DOMAIN listeners THEN listeners[type] ELSE <<>>

\* a variant of notifyListeners that takes the type's listeners for the
\* wildcard listeners too, so that each runs twice
notifyListeners_twice(V, e) ==
    callEach(callEach(V, listenersFor(e.type), e), listenersFor(e.type), e)

\* notifyListeners(event): the type's listeners, then the wildcard ones
notifyListeners(V, e) == callEach(callEach(V, listenersFor(e.type), e), <<>>, e)

EM == [events |-> events, eventCount |-> eventCount,
       eventCountText |-> eventCountText, logChildren |-> logChildren,
       threw |-> threw]

SetEM(E) ==
    /\ events' = E.events
    /\ eventCount' = E.eventCount
    /\ eventCountText' = E.eventCountText
    /\ logChildren' = E.logChildren
    /\ threw' = E.threw

IsEM(E) ==
    /\ events = E.events
    /\ eventCount = E.eventCount
    /\ eventCountText = E.eventCountText
    /\ logChildren = E.logChildren
    /\ threw = E.threw

\* new EventManager(); the #event-count element shows the page's initial 0
newEventManager ==
    [events |-> <<>>, eventCount |-> 0, eventCountText |-> 0, logChildren |-> 0,
     threw |-> FALSE]

\* logEvent(event): one child appended, the oldest dropped beyond the limit
logEvent(E) == [E EXCEPT !.logChildren = Min(@ + 1, logLimit)]

updateStats(E) == [E EXCEPT !.eventCountText = E.eventCount]

\* EventManager.listeners after connectEvents: the listeners by event type
\* and the listeners of '*'
connectEvents == [byType |-> listeners, all |-> <<>>]

\* on(eventType, callback): the callback is appended to the type's list
on(table, eventType, callback) ==
    [table EXCEPT !.byType =
        [c \in DOMAIN @ \cup {eventType} |->
            IF c = eventType
                THEN (IF c \in DOMAIN @ THEN @[c] ELSE <<>>) \o <<callback>>
                ELSE @[c]]]

\* onAll(callback): this.on('*', callback)
onAll(table, callback) == [table EXCEPT !.all = Append(@, callback)]

\* a variant of calledBy that calls the wildcard listeners first
calledBy_wildcardFirst(table, eventType) ==
    table.all \o (IF eventType \in DOMAIN table.byType
                    THEN table.byType[eventType] ELSE <<>>)

\* this.listeners.get(type) || [] on a table of listeners
listenersOf(table, eventType) ==
    IF eventType \in DOMAIN table.byType THEN table.byType[eventType] ELSE <<>>

\* notifyListeners(event) on a table of listeners: the callbacks called, in
\* call order
calledBy(table, eventType) == listenersOf(table, eventType) \o table.all

\* handleEvent(eventType, dataJson) on event manager E and visualizer V.
\* The object literal evaluates id: this.eventCount++ before JSON.parse; a
\* SyntaxError of JSON.parse, or an error raised in a listener, leaves the
\* function at that point.  The timestamp (Date.now()) is not kept.
handleEvent(E, V, eventType, dataJson) ==
    LET E1 == [E EXCEPT !.eventCount = @ + 1, !.threw = FALSE]
        parsed == JSONparse(dataJson)
        e == [id |-> E.eventCount, type |-> eventType,
              typeName |-> typeNameOf(eventType),
              category |-> categoryOf(eventType), data |-> parsed.value]
        E2 == logEvent([E1 EXCEPT !.events = Append(@, e)])
        V1 == notifyListeners(V, e)
    IN  IF parsed.threw THEN [em |-> [E1 EXCEPT !.threw = TRUE], vis |-> V]
        ELSE IF ~ok(V1) THEN [em |-> [E2 EXCEPT !.threw = TRUE], vis |-> V1]
        ELSE [em |-> updateStats(E2), vis |-> V1]

\* Array.prototype.slice(start): a negative start counts from the end
slice(arr, start) ==
    LET s == IF start < 0 THEN Max(Len(arr) + start, 0) ELSE Min(start, Len(arr))
    IN  SubSeq(arr, s + 1, Len(arr))

\* getRecentEvents(count): this.events.slice(-count)
getRecentEvents(E, count) == slice(E.events, 0 - count)

\* EventManager.clear()
clearEvents(E) ==
    updateStats([E EXCEPT !.events = <<>>, !.eventCount = 0, !.logChildren = 0])

----------------------------------------------------------------------------
(* The producer: sqlite_bridge.c *)

\* enum EventType
EVENT_BTREE_OPEN == 0
EVENT_BTREE_CLOSE == 1
EVENT_BTREE_INSERT == 2
EVENT_BTREE_DELETE == 3
EVENT_BTREE_SPLIT == 4
EVENT_BTREE_BALANCE == 5
EVENT_PAGE_ALLOCATE == 6
EVENT_PAGE_FREE == 7
EVENT_PARSE_START == 8
EVENT_PARSE_TOKEN == 9
EVENT_PARSE_COMPLETE == 10
EVENT_VDBE_START == 11
EVENT_VDBE_OPCODE == 12
EVENT_VDBE_COMPLETE == 13

\* the object JSON.parse builds from a text of members (name, value) in the
\* order written: a name written twice keeps its last value
objectOf(members) ==
    [n \in {members[i][1] : i \in DOMAIN members} |->
        members[CHOOSE i \in DOMAIN members :
                    /\ members[i][1] = n
                    /\ \A j \in DOMAIN members : members[j][1] = n => j <= i][2]]

\* vsnprintf(buffer, sizeof(buffer), format, args) for a format of members
\* "name":%d, a text well within the buffer
vsnprintf(members) == [syntax |-> "json", value |-> objectOf(members)]

\* emit_vis_event(type, format, ...): the call js_emit_event(type, buffer)
\* it makes, under the name and arguments of the hook that made it; the
\* flag events_enabled is not read
emit_vis_event(hook, args, type, members) ==
    [hook |-> hook, args |-> args, type |-> type, data |-> vsnprintf(members)]

btree_open_event(page_size, num_pages) ==
    emit_vis_event("btree_open_event", <<page_size, num_pages>>,
        EVENT_BTREE_OPEN,
        <<<<"pageSize", page_size>>, <<"numPages", num_pages>>>>)

\* the key argument is not sent
btree_insert_event(page_num, cell_idx, key_len) ==
    emit_vis_event("btree_insert_event", <<page_num, cell_idx, key_len>>,
        EVENT_BTREE_INSERT,
        <<<<"page", page_num>>, <<"cell", cell_idx>>, <<"keyLen", key_len>>>>)

btree_delete_event(page_num, cell_idx) ==
    emit_vis_event("btree_delete_event", <<page_num, cell_idx>>,
        EVENT_BTREE_DELETE,
        <<<<"page", page_num>>, <<"cell", cell_idx>>>>)

\* a variant of btree_split_event that writes the two pages under each
\* other's name
btree_split_event_swapsPages(original_page, new_page, split_cell) ==
    emit_vis_event("btree_split_event",
        <<original_page, new_page, split_cell>>, EVENT_BTREE_SPLIT,
        <<<<"originalPage", new_page>>, <<"newPage", original_page>>,
          <<"splitCell", split_cell>>>>)

btree_split_event(original_page, new_page, split_cell) ==
    emit_vis_event("btree_split_event",
        <<original_page, new_page, split_cell>>, EVENT_BTREE_SPLIT,
        <<<<"originalPage", original_page>>, <<"newPage", new_page>>,
          <<"splitCell", split_cell>>>>)

btree_balance_event(page_num, num_cells) ==
    emit_vis_event("btree_balance_event", <<page_num, num_cells>>,
        EVENT_BTREE_BALANCE,
        <<<<"page", page_num>>, <<"numCells", num_cells>>>>)

page_allocate_event(page_num, page_type) ==
    emit_vis_event("page_allocate_event", <<page_num, page_type>>,
        EVENT_PAGE_ALLOCATE,
        <<<<"page", page_num>>, <<"type", page_type>>>>)

page_free_event(page_num) ==
    emit_vis_event("page_free_event", <<page_num>>, EVENT_PAGE_FREE,
        <<<<"page", page_num>>>>)

parse_complete_event(success) ==
    emit_vis_event("parse_complete_event", <<success>>, EVENT_PARSE_COMPLETE,
        <<<<"success", success>>>>)

vdbe_start_event(num_opcodes) ==
    emit_vis_event("vdbe_start_event", <<num_opcodes>>, EVENT_VDBE_START,
        <<<<"numOpcodes", num_opcodes>>>>)

vdbe_complete_event(result_code) ==
    emit_vis_event("vdbe_complete_event", <<result_code>>,
        EVENT_VDBE_COMPLETE, <<<<"resultCode", result_code>>>>)

\* js_emit_event(event_type, data): window.sqliteVisEventHandler, set when
\* events.js is loaded, passes the call to eventManager.handleEvent
js_emit_event(E, V, event_type, data) == handleEvent(E, V, event_type, data)

\* set_events_enabled(enabled) / get_events_enabled() on the flag
set_events_enabled(flag, enabled) == enabled

get_events_enabled(flag) == flag

----------------------------------------------------------------------------
(* Texts, and the application's SQL editor: part_000 executeSQL *)

\* A text is a sequence of characters.  The characters told apart are the
\* double quote, the backslash and the line break (a control character, and
\* white space for trim()); the three SQL key phrases stand for the ordinary
\* letters that spell them, none of which is an escape letter of JSON when
\* it follows a backslash.
quote == "\""
backslash == "\\"
lineBreak == "\n"

keyPhrases == {"CREATE TABLE", "INSERT INTO", "SELECT"}

Chars == {quote, backslash, lineBreak} \cup keyPhrases

\* String.prototype.trim
RECURSIVE trimStart(_)
trimStart(text) ==
    IF text # <<>> /\ Head(text) = lineBreak THEN trimStart(Tail(text)) ELSE text

RECURSIVE trimEnd(_)
trimEnd(text) ==
    IF text # <<>> /\ text[Len(text)] = lineBreak
        THEN trimEnd(SubSeq(text, 1, Len(text) - 1))
        ELSE text

trim(text) == trimEnd(trimStart(text))

\* sql.replace(/"/g, '\\"'): a backslash before every double quote
RECURSIVE escapeQuotes(_)
escapeQuotes(text) ==
    IF text = <<>> THEN <<>>
    ELSE (IF Head(text) = quote THEN <<backslash, quote>> ELSE <<Head(text)>>)
            \o escapeQuotes(Tail(text))

\* JSON.parse on the characters written between the quotes of a string
\* member whose closing quote and brace follow them: the string read, or a
\* SyntaxError.  A bare double quote ends the string before the text's end,
\* a control character is not allowed in a string, and a backslash must be
\* followed by an escape letter (of Chars: the quote and the backslash); a
\* backslash at the end takes the closing quote, which leaves the string
\* open.
RECURSIVE parseStringFrom(_, _)
parseStringFrom(body, read) ==
    IF body = <<>> THEN [threw |-> FALSE, value |-> read]
    ELSE IF Head(body) \in {quote, lineBreak}
        THEN [threw |-> TRUE, value |-> <<>>]
    ELSE IF Head(body) = backslash
        THEN IF Len(body) >= 2 /\ body[2] \in {quote, backslash}
                THEN parseStringFrom(Tail(Tail(body)), Append(read, body[2]))
                ELSE [threw |-> TRUE, value |-> <<>>]
    ELSE parseStringFrom(Tail(body), Append(read, Head(body)))

\* the payload text {"name":"body", members}: what JSON.parse makes of it
stringPayload(name, body, members) ==
    LET str == parseStringFrom(body, <<>>)
    IN  IF str.threw THEN garbageText
        ELSE jsonText(objectOf(<<<<name, str.value>>>> \o members))

\* text.includes(phrase), and the matches of /phrase/gi
includes(text, phrase) == \E i \in DOMAIN text : text[i] = phrase

matches(text, phrase) == Cardinality({i \in DOMAIN text : text[i] = phrase})

\* milliseconds between the inserts executeMockSQL schedules
mockInsertStepMs == 200

\* new SQLiteVisApp(), in mock mode: sqliteModule is null
newApp ==
    [sqliteModule |-> "null", output |-> "placeholder", status |-> "Ready",
     calls |-> <<>>, pending |-> {}]

showOutput(A, type) == [A EXCEPT !.output = type]

clearOutput(A) == [A EXCEPT !.output = "placeholder"]

updateStatus(A, message) == [A EXCEPT !.status = message]

\* the application, its event manager and its visualizer after one
\* eventManager.handleEvent call made by the application; nothing is done
\* once a call has thrown
appEvent(S, eventType, dataJson) ==
    IF S.em.threw THEN S
    ELSE LET r == handleEvent(S.em, S.vis, eventType, dataJson)
         IN  [S EXCEPT !.em = r.em, !.vis = r.vis]

\* one statement of executeSQL, executeMockSQL or executeRealSQL performed
\* on the application, its event manager and its visualizer.  "call" is
\* history: the executor that is entered.
perform(S, st) ==
    CASE st.do = "handleEvent" -> appEvent(S, st.eventType, st.dataJson)
      [] st.do = "showOutput" -> [S EXCEPT !.app = showOutput(@, st.type)]
      [] st.do = "clearOutput" -> [S EXCEPT !.app = clearOutput(@)]
      [] st.do = "updateStatus" -> [S EXCEPT !.app = updateStatus(@, st.message)]
      [] st.do = "setTimeout" ->
            [S EXCEPT !.app.pending = @ \cup
                {[cell |-> i, delay |-> i * mockInsertStepMs] :
                    i \in 0 .. st.count - 1}]
      [] OTHER -> [S EXCEPT !.app.calls = Append(@, [fn |-> st.fn, sql |-> st.sql])]

\* the statements of a function body in order; an exception of handleEvent
\* leaves the body
RECURSIVE run(_, _)
run(S, statements) ==
    IF statements = <<>> \/ S.em.threw THEN S
    ELSE run(perform(S, Head(statements)), Tail(statements))

\* executeMockSQL(sql): the allocation at once, each insert from a timer of
\* its own, then PARSE_COMPLETE
executeMockSQL(sql) ==
    <<[do |-> "call", fn |-> "executeMockSQL", sql |-> sql]>>
    \o (IF includes(sql, "CREATE TABLE")
          THEN <<[do |-> "handleEvent", eventType |-> PAGE_ALLOCATE,
                  dataJson |-> jsonText([page |-> 1, type |-> 1])],
                 [do |-> "showOutput", type |-> "success"]>>
          ELSE <<>>)
    \o (IF includes(sql, "INSERT INTO")
          THEN <<[do |-> "setTimeout", count |-> matches(sql, "INSERT INTO")],
                 [do |-> "showOutput", type |-> "success"]>>
          ELSE <<>>)
    \o (IF includes(sql, "SELECT")
          THEN <<[do |-> "showOutput", type |-> "table"]>>
          ELSE <<>>)
    \o <<[do |-> "handleEvent", eventType |-> PARSE_COMPLETE,
          dataJson |-> jsonText([success |-> 1])],
         [do |-> "updateStatus", message |-> "Ready"]>>

\* executeRealSQL(sql) with the module loaded: sqlite3_exec returns result
executeRealSQL(sql, result) ==
    <<[do |-> "call", fn |-> "executeRealSQL", sql |-> sql],
      [do |-> "showOutput", type |-> IF result = 0 THEN "success" ELSE "error"],
      [do |-> "updateStatus", message |-> "Ready"]>>

\* executeSQL: catch (error)
caught(S) ==
    IF S.em.threw
        THEN [S EXCEPT !.app = updateStatus(showOutput(@, "error"), "Error")]
        ELSE S

\* executeSQL() with the editor holding input; result is what sqlite3_exec
\* would return.  An exception of handleEvent or of the executor is caught
\* and shown.  calls is history: the executor calls of the latest
\* executeSQL().
executeSQL(S, input, result) ==
    IF trim(input) = <<>>
        THEN [S EXCEPT !.em.threw = FALSE,
                       !.app = showOutput([@ EXCEPT !.calls = <<>>], "error")]
    ELSE caught(run(
            [S EXCEPT !.em.threw = FALSE, !.app.calls = <<>>],
            <<[do |-> "clearOutput"],
              [do |-> "updateStatus", message |-> "Executing SQL..."],
              [do |-> "handleEvent", eventType |-> PARSE_START,
               dataJson |-> stringPayload("sql", escapeQuotes(trim(input)),
                                          <<>>)]>>
            \o (IF S.app.sqliteModule = "null"
                  THEN executeMockSQL(trim(input))
                  ELSE executeRealSQL(trim(input), result))))

\* the callback of a timer of executeMockSQL: the insert event of its cell
mockInsert(S, t) ==
    appEvent([S EXCEPT !.em.threw = FALSE, !.app.pending = @ \ {t}],
             BTREE_INSERT,
             jsonText([page |-> 1, cell |-> t.cell, keyLen |-> 16]))

----------------------------------------------------------------------------
(* The producer's hooks that send strings *)

\* char buffer[1024] of emit_vis_event and char escaped_sql[512] of
\* parse_start_event
bufferSize == 1024
escapedSqlSize == 512

\* longRun is a run of bufferSize ordinary letters; cutRun is the part of a
\* run that parse_start_event copies before its buffer is full
longRun == "x..."
cutRun == "x.."

\* the number of chars a character of a text takes
charLen(c) ==
    CASE c = longRun -> bufferSize
      [] c = cutRun -> escapedSqlSize - 2
      [] c = "CREATE TABLE" -> 12
      [] c = "INSERT INTO" -> 11
      [] c = "SELECT" -> 6
      [] OTHER -> 1

RECURSIVE strlen(_)
strlen(text) == IF text = <<>> THEN 0 ELSE charLen(Head(text)) + strlen(Tail(text))

\* the escape loop of parse_start_event from write position j: a backslash
\* before every double quote and backslash, control characters as they are,
\* and no more chars than the buffer takes
RECURSIVE escapeSqlFrom(_, _)
escapeSqlFrom(sql, j) ==
    IF sql = <<>> \/ j >= escapedSqlSize - 2 THEN <<>>
    ELSE IF Head(sql) \in {quote, backslash}
        THEN <<backslash, Head(sql)>> \o escapeSqlFrom(Tail(sql), j + 2)
    ELSE IF j + charLen(Head(sql)) > escapedSqlSize - 2
        THEN <<cutRun>>
    ELSE <<Head(sql)>> \o escapeSqlFrom(Tail(sql), j + charLen(Head(sql)))

\* vsnprintf(buffer, sizeof(buffer), format, ...) for a format of len chars
\* around one %s: the text is cut after bufferSize - 1 chars, which leaves
\* the object open
vsnprintfString(len, name, body, members) ==
    IF len + strlen(body) > bufferSize - 1 THEN garbageText
    ELSE stringPayload(name, body, members)

\* the format {"sql":"%s"} has 10 chars
parse_start_event(sql) ==
    [hook |-> "parse_start_event", args |-> <<>>, type |-> EVENT_PARSE_START,
     data |-> vsnprintfString(10, "sql", escapeSqlFrom(sql, 0), <<>>)]

\* the format {"token":"%s","type":%d} has 20 chars and a one-digit %d
parse_token_event(token, token_type) ==
    [hook |-> "parse_token_event", args |-> <<token_type>>,
     type |-> EVENT_PARSE_TOKEN,
     data |-> vsnprintfString(21, "token", token, <<<<"type", token_type>>>>)]

\* the format {"pc":%d,"opcode":"%s","p1":%d,"p2":%d,"p3":%d} has 37 chars
\* and four one-digit %d
vdbe_opcode_event(pc, opcode, p1, p2, p3) ==
    [hook |-> "vdbe_opcode_event", args |-> <<pc, p1, p2, p3>>,
     type |-> EVENT_VDBE_OPCODE,
     data |-> vsnprintfString(41, "opcode", opcode,
                <<<<"pc", pc>>, <<"p1", p1>>, <<"p2", p2>>, <<"p3", p3>>>>)]

----------------------------------------------------------------------------
(* Guards that keep the model finite *)

RECURSIVE cellsIn(_, _)
cellsIn(ns, ps) ==
    IF ps = {} THEN 0
    ELSE LET p == CHOOSE q \in ps : TRUE
         IN  Len(ns[p].cells) + cellsIn(ns, ps \ {p})

totalCells(ns) == cellsIn(ns, DOMAIN ns)

roomForCell == totalCells(nodes) < MaxCells

roomForTimer == showTransitions => Cardinality(timeouts) < MaxTimers

responsive == fault # "hang"

\* has the history entry c been observed past the spec's T + 600/s
observed(c) == c.age * c.speed >= 600 * 10

----------------------------------------------------------------------------
(* Actions *)

Op(name, args) == [op |-> name, args |-> args, stale |-> FALSE, removed |-> {}]

\* visualizer.addPage(pageNum, pageType)
AddPage(pageNum, pageType) ==
    /\ responsive
    /\ SetVis(addPage(begin(Vis), pageNum, pageType))
    /\ replica' = addPage(begin(replica), pageNum, pageType)
    /\ lastOp' = Op("addPage", <<pageNum, pageType>>)
    /\ UNCHANGED emVars
    /\ UNCHANGED <<events_enabled, app, registry, called>>

\* visualizer.addCell(pageNum, cellIdx, keyLen)
AddCell(pageNum, cellIdx, keyLen) ==
    /\ responsive /\ roomForCell /\ roomForTimer
    /\ SetVis(addCell(begin(Vis), pageNum, cellIdx, keyLen))
    /\ replica' = addCell(begin(replica), pageNum, cellIdx, keyLen)
    /\ lastOp' = Op("addCell", <<pageNum, cellIdx, keyLen>>)
    /\ UNCHANGED emVars
    /\ UNCHANGED <<events_enabled, app, registry, called>>

\* visualizer.deleteCell(pageNum, cellIdx)
DeleteCell(pageNum, cellIdx) ==
    /\ responsive /\ roomForTimer
    /\ SetVis(deleteCell(begin(Vis), pageNum, cellIdx))
    /\ replica' = deleteCell(begin(replica), pageNum, cellIdx)
    /\ lastOp' = Op("deleteCell", <<pageNum, cellIdx>>)
    /\ UNCHANGED emVars
    /\ UNCHANGED <<events_enabled, app, registry, called>>

\* visualizer.splitPage(originalPage, newPage, splitCell)
SplitPage(originalPage, newPage, splitCell) ==
    /\ responsive /\ roomForTimer
    /\ SetVis(splitPage(begin(Vis), originalPage, newPage, splitCell))
    /\ replica' = splitPage(begin(replica), originalPage, newPage, splitCell)
    /\ lastOp' = Op("splitPage", <<originalPage, newPage, splitCell>>)
    /\ UNCHANGED emVars
    /\ UNCHANGED <<events_enabled, app, registry, called>>

\* visualizer.clear()
Clear ==
    /\ responsive
    /\ SetVis(clear(begin(Vis)))
    /\ replica' = clear(begin(replica))
    /\ lastOp' = Op("clear", <<>>)
    /\ UNCHANGED emVars
    /\ UNCHANGED <<events_enabled, app, registry, called>>

\* the canvas 'mousemove' listener of bindEvents
MouseMove(x, y) ==
    /\ responsive
    /\ \/ /\ getNodeAtPosition(Vis, x, y) = {}
          /\ SetVis(hideNodeInfo(begin(Vis)))
       \/ \E p \in getNodeAtPosition(Vis, x, y) :
            SetVis(showNodeInfo(begin(Vis), p))
    /\ lastOp' = Op("mousemove", <<x, y>>)
    /\ UNCHANGED <<emVars, replica>>
    /\ UNCHANGED <<events_enabled, app, registry, called>>

\* the canvas 'click' listener of bindEvents; the step records the point,
\* the node hit and the expanded flag (1 or 0) it had
Click(x, y) ==
    /\ responsive
    /\ \/ /\ getNodeAtPosition(Vis, x, y) = {}
          /\ SetVis(begin(Vis))
          /\ lastOp' = Op("click", <<x, y>>)
       \/ \E p \in getNodeAtPosition(Vis, x, y) :
            /\ SetVis(toggleNodeExpansion(begin(Vis), p))
            /\ lastOp' = Op("click",
                            <<x, y, p, IF nodes[p].expanded THEN 1 ELSE 0>>)
    /\ UNCHANGED <<emVars, replica>>
    /\ UNCHANGED <<events_enabled, app, registry, called>>

\* the window 'resize' listener of setupCanvas, the canvas now w wide
Resize(w) ==
    /\ responsive
    /\ SetVis(resize(begin(Vis), w))
    /\ lastOp' = Op("resize", <<w>>)
    /\ UNCHANGED <<emVars, replica>>
    /\ UNCHANGED <<events_enabled, app, registry, called>>

\* visualizer.setAnimationSpeed(speed), from the speed slider
SetAnimationSpeed(speed) ==
    /\ responsive
    /\ SetVis(setAnimationSpeed(begin(Vis), speed))
    /\ lastOp' = Op("setAnimationSpeed", <<speed>>)
    /\ UNCHANGED <<emVars, replica>>
    /\ UNCHANGED <<events_enabled, app, registry, called>>

\* visualizer.setShowTransitions(show), from the checkbox
SetShowTransitions(show) ==
    /\ responsive
    /\ SetVis(setShowTransitions(begin(Vis), show))
    /\ lastOp' = Op("setShowTransitions", <<>>)
    /\ UNCHANGED <<emVars, replica>>
    /\ UNCHANGED <<events_enabled, app, registry, called>>

\* eventManager.notifyListeners(event) for a PAGE_FREE event
FreePage(pageNum) ==
    /\ responsive
    /\ LET e == [type |-> PAGE_FREE, data |-> [page |-> pageNum]]
       IN  /\ SetVis(notifyListeners(begin(Vis), e))
           /\ replica' = notifyListeners(begin(replica), e)
    /\ lastOp' = Op("pageFree", <<pageNum>>)
    /\ UNCHANGED emVars
    /\ UNCHANGED <<events_enabled, app, registry, called>>

\* window.sqliteVisEventHandler(eventType, dataJson)
HandleEvent(eventType, dataJson) ==
    /\ responsive /\ eventCount < MaxEvents
    /\ eventType = BTREE_INSERT => roomForCell
    /\ eventType \in {BTREE_INSERT, BTREE_DELETE, BTREE_SPLIT} => roomForTimer
    /\ LET r == handleEvent(EM, begin(Vis), eventType, dataJson)
       IN  SetEM(r.em) /\ SetVis(r.vis)
    /\ replica' = handleEvent(newEventManager, begin(replica), eventType,
                              dataJson).vis
    /\ lastOp' = Op("handleEvent", <<eventType>>)
    /\ UNCHANGED <<events_enabled, app, registry, called>>

\* a bridge hook called by the instrumented engine: the call m it makes
Emit(m) ==
    /\ responsive /\ eventCount < MaxEvents
    /\ m.type = BTREE_INSERT => roomForCell
    /\ m.type \in {BTREE_INSERT, BTREE_DELETE, BTREE_SPLIT} => roomForTimer
    /\ LET r == js_emit_event(EM, begin(Vis), m.type, m.data)
       IN  SetEM(r.em) /\ SetVis(r.vis)
    /\ lastOp' = Op(m.hook, m.args)
    /\ UNCHANGED <<replica, events_enabled, app, registry, called>>

\* set_events_enabled(enabled), called from JavaScript
SetEventsEnabled(enabled) ==
    /\ responsive
    /\ events_enabled' = set_events_enabled(events_enabled, enabled)
    /\ SetVis(begin(Vis))
    /\ lastOp' = Op("set_events_enabled", <<enabled>>)
    /\ UNCHANGED <<emVars, replica>>
    /\ UNCHANGED <<app, registry, called>>

\* the execute button: executeSQL() on the editor's text.  A statement is
\* offered on a fresh log and store, when no timer of an earlier statement
\* is pending.
ExecuteSQL(input, result) ==
    /\ responsive
    /\ events = <<>> /\ eventCount = 0 /\ nodes = emptyMap /\ app.pending = {}
    /\ \E r \in {executeSQL([app |-> app, em |-> EM, vis |-> begin(Vis)],
                           input, result)} :
            app' = r.app /\ SetEM(r.em) /\ SetVis(r.vis)
    /\ lastOp' = Op("executeSQL", <<>>)
    /\ UNCHANGED <<replica, events_enabled, registry, called>>

\* initSQLite() has loaded the WebAssembly module and opened the database
InitSQLite ==
    /\ responsive
    /\ app.sqliteModule = "null"
    /\ app' = [app EXCEPT !.sqliteModule = "loaded"]
    /\ SetVis(begin(Vis))
    /\ lastOp' = Op("initSQLite", <<>>)
    /\ UNCHANGED <<emVars, replica, events_enabled, registry, called>>

\* the timer of executeMockSQL that is due first runs
MockInsert(t) ==
    /\ responsive
    /\ t \in app.pending /\ \A u \in app.pending : t.delay <= u.delay
    /\ \E r \in {mockInsert([app |-> app, em |-> EM, vis |-> begin(Vis)], t)} :
            app' = r.app /\ SetEM(r.em) /\ SetVis(r.vis)
    /\ lastOp' = Op("mockInsert", <<t.cell>>)
    /\ UNCHANGED <<replica, events_enabled, registry, called>>

\* eventManager.on(eventType, callback) with a callback that only looks at
\* the event
On(eventType, callback) ==
    /\ responsive
    /\ Len(listenersOf(registry, eventType)) < MaxListeners
    /\ registry' = on(registry, eventType, callback)
    /\ SetVis(begin(Vis))
    /\ lastOp' = Op("on", <<eventType>>)
    /\ UNCHANGED <<emVars, replica, events_enabled, app, called>>

\* eventManager.onAll(callback) with such a callback
OnAll(callback) ==
    /\ responsive
    /\ Len(registry.all) < MaxListeners
    /\ registry' = onAll(registry, callback)
    /\ SetVis(begin(Vis))
    /\ lastOp' = Op("onAll", <<>>)
    /\ UNCHANGED <<emVars, replica, events_enabled, app, called>>

\* window.sqliteVisEventHandler(eventType, dataJson), with the callbacks it
\* calls noted: each with the length of the recorded list it finds
HandleObserved(eventType, dataJson) ==
    /\ responsive /\ eventCount < MaxEvents
    /\ eventType = BTREE_INSERT => roomForCell
    /\ eventType \in {BTREE_INSERT, BTREE_DELETE, BTREE_SPLIT} => roomForTimer
    /\ LET r == handleEvent(EM, begin(Vis), eventType, dataJson)
       IN  /\ SetEM(r.em) /\ SetVis(r.vis)
           /\ called' = IF Len(r.em.events) = Len(events) THEN <<>>
                        ELSE [i \in DOMAIN calledBy(registry, eventType) |->
                                [callback |-> calledBy(registry, eventType)[i],
                                 saw |-> Len(r.em.events)]]
    /\ lastOp' = Op("handleEvent", <<eventType>>)
    /\ UNCHANGED <<replica, events_enabled, app, registry>>

\* eventManager.clear(), from the clear-events button
ClearEvents ==
    /\ responsive
    /\ SetEM(clearEvents(EM))
    /\ SetVis(begin(Vis))
    /\ lastOp' = Op("clearEvents", <<>>)
    /\ UNCHANGED replica
    /\ UNCHANGED <<events_enabled, app, registry, called>>

\* TickMs milliseconds pass.  A callback that is due runs before more time
\* passes.
Tick ==
    /\ responsive
    /\ timeouts # {} \/ created # {}
    /\ \A t \in timeouts : t.remaining > 0
    /\ SetVis([begin(Vis) EXCEPT
            !.timeouts = {[t EXCEPT !.remaining = @ - TickMs] : t \in @},
            !.created = {[c EXCEPT !.age = @ + TickMs] :
                            c \in {d \in @ : ~observed(d)}}])
    /\ lastOp' = Op("tick", <<>>)
    /\ UNCHANGED <<emVars, replica>>
    /\ UNCHANGED <<events_enabled, app, registry, called>>

\* a setTimeout callback that is due runs
Timeout(t) ==
    /\ responsive
    /\ t \in timeouts /\ t.remaining <= 0
    /\ SetVis(timeoutCallback(begin([Vis EXCEPT !.timeouts = @ \ {t}]), t))
    /\ lastOp' = [op |-> "timeout", args |-> <<>>, stale |-> t.stale,
                  removed |-> t.pages \cap highlightedNodes]
    /\ UNCHANGED <<emVars, replica>>
    /\ UNCHANGED <<events_enabled, app, registry, called>>

----------------------------------------------------------------------------
(* Specifications *)

\* the canvas width of the runs
Widths == {800}

\* The application after construction: a visualizer, the event manager and
\* the listeners of connectEvents; the replica is a visualizer of its own
\* with show-transitions switched off.
InitApp ==
    /\ \E w \in Widths :
        /\ IsVis(constructor(w))
        /\ replica = setShowTransitions(constructor(w), FALSE)
    /\ IsEM(newEventManager)
    /\ lastOp = Op("constructor", <<>>)
    /\ events_enabled = 1
    /\ app = newApp
    /\ registry = connectEvents /\ called = <<>>

\* The application after construction and setShowTransitions(false)
InitStore ==
    /\ \E w \in Widths :
        /\ IsVis(setShowTransitions(constructor(w), FALSE))
        /\ replica = setShowTransitions(constructor(w), FALSE)
    /\ IsEM(newEventManager)
    /\ lastOp = Op("setShowTransitions", <<>>)
    /\ events_enabled = 1
    /\ app = newApp
    /\ registry = connectEvents /\ called = <<>>

\* The store driven through the visualizer's public operations and the
\* page-free listener, highlights switched off.
NextStore ==
    \/ \E p \in Pages, t \in PageTypes : AddPage(p, t)
    \/ \E p \in Pages, i \in CellIdxs, k \in KeyLens : AddCell(p, i, k)
    \/ \E p \in Pages, i \in CellIdxs : DeleteCell(p, i)
    \/ \E p \in Pages, q \in Pages, i \in CellIdxs : SplitPage(p, q, i)
    \/ \E p \in Pages : FreePage(p)
    \/ Clear

Spec == InitStore /\ [][NextStore]_vars

\* Highlights and their timers: a leaf root, cells inserted and deleted at
\* the front, a split into page 2, time passing and callbacks running in
\* between.
NextAnim ==
    \/ AddPage(1, 1)
    \/ AddCell(1, 0, 16)
    \/ DeleteCell(1, 0)
    \/ SplitPage(1, 2, 1)
    \/ Clear
    \/ \E s \in Speeds : SetAnimationSpeed(s)
    \/ \E b \in BOOLEAN : SetShowTransitions(b)
    \/ Tick
    \/ \E t \in timeouts : Timeout(t)

SpecAnim == InitApp /\ [][NextAnim]_vars

\* The mutation records of one page and its split, with transitions switched
\* on and off between them and time passing: what a replay of a recorded
\* mutation sequence goes through.
NextReplay ==
    \/ AddPage(1, 1)
    \/ \E k \in KeyLens : AddCell(1, 0, k)
    \/ DeleteCell(1, 0)
    \/ SplitPage(1, 2, 1)
    \/ \E b \in BOOLEAN : SetShowTransitions(b)
    \/ Tick
    \/ \E t \in timeouts : Timeout(t)

SpecReplay == InitApp /\ [][NextReplay]_vars

\* Highlights with transitions shown, over the records of a page, its split
\* into page 2 and the freeing of page 2, with the speed slider moved and
\* time passing in between.
NextHighlight ==
    \/ AddPage(1, 1)
    \/ AddCell(1, 0, 16)
    \/ DeleteCell(1, 0)
    \/ SplitPage(1, 2, 1)
    \/ 2 \in DOMAIN nodes /\ FreePage(2)
    \/ \E s \in Speeds : SetAnimationSpeed(s)
    \/ Tick
    \/ \E t \in timeouts : Timeout(t)

SpecHighlight == InitApp /\ [][NextHighlight]_vars

\* Highlights started by the records of a page and by its split, at the
\* speed the slider starts with.
NextExpiry ==
    \/ AddPage(1, 1)
    \/ AddCell(1, 0, 16)
    \/ DeleteCell(1, 0)
    \/ SplitPage(1, 2, 1)
    \/ Tick
    \/ \E t \in timeouts : Timeout(t)

\* These runs in a browser whose clock advances and whose event loop runs
\* every callback that is due.
SpecExpiry ==
    /\ InitApp
    /\ [][NextExpiry]_vars
    /\ WF_vars(Tick)
    /\ WF_vars(\E t \in timeouts : Timeout(t))

\* The records of a page and its split, with the transitions checkbox and
\* the speed slider moved and time passing in between.
NextAdditive ==
    \/ AddPage(1, 1)
    \/ AddCell(1, 0, 16)
    \/ DeleteCell(1, 0)
    \/ SplitPage(1, 2, 1)
    \/ \E s \in Speeds : SetAnimationSpeed(s)
    \/ \E b \in BOOLEAN : SetShowTransitions(b)
    \/ Tick
    \/ \E t \in timeouts : Timeout(t)

SpecAdditive == InitApp /\ [][NextAdditive]_vars

\* the payload texts the producer sends with each event code
payloads(code) ==
    CASE code = BTREE_OPEN ->
            {jsonText([pageSize |-> defaultPageSize, numPages |-> 1])}
      [] code = PAGE_ALLOCATE -> {jsonText([page |-> 1, type |-> 1])}
      [] code = PAGE_FREE -> {jsonText([page |-> 1])}
      [] code = BTREE_INSERT -> {jsonText([page |-> 1, cell |-> 0, keyLen |-> 16])}
      [] code = BTREE_DELETE -> {jsonText([page |-> 1, cell |-> 0])}
      [] code = BTREE_SPLIT ->
            {jsonText([originalPage |-> 1, newPage |-> 2, splitCell |-> 1])}
      [] code = BTREE_BALANCE -> {jsonText([page |-> 1, numCells |-> 1])}
      [] code = PARSE_START -> {jsonText([sql |-> "SELECT 1"])}
      [] code = PARSE_TOKEN -> {jsonText([token |-> "SELECT", type |-> 1])}
      [] code = PARSE_COMPLETE -> {jsonText([success |-> 1])}
      [] code = VDBE_START -> {jsonText([numOpcodes |-> 1])}
      [] code = VDBE_OPCODE ->
            {jsonText([pc |-> 0, opcode |-> "Init", p1 |-> 0, p2 |-> 0, p3 |-> 0])}
      [] code = VDBE_COMPLETE -> {jsonText([resultCode |-> 0])}
      [] OTHER -> {jsonText(emptyMap)}

\* the codes whose listeners change the tree
MutatingCodes == {BTREE_INSERT, BTREE_DELETE, BTREE_SPLIT, PAGE_ALLOCATE, PAGE_FREE}

\* the event codes sent: the fourteen of the protocol and an unknown one
EventCodes == 0 .. 13 \cup {99}

\* The application driven by the producer's events.
NextEvents ==
    \/ \E c \in EventCodes : \E d \in payloads(c) : HandleEvent(c, d)
    \/ \E c \in EventCodes : HandleEvent(c, garbageText)
    \/ ClearEvents

SpecEvents == InitApp /\ [][NextEvents]_vars

\* The application driven by well-formed events of the codes that have a
\* listener and of an unknown code, the event log cleared in between.
NextOrder ==
    \/ \E c \in MutatingCodes \cup {BTREE_OPEN, 99} :
            \E d \in payloads(c) : HandleEvent(c, d)
    \/ ClearEvents

SpecOrder == InitApp /\ [][NextOrder]_vars

\* Node tables whose nodes are linked: no operation of the visualizer fills a
\* children list, so the tables a host hands to layout() and draw() are
\* enumerated.  A live page has up to two children entries, which name
\* pages of TablePages, live or not, and no cells; a page with children is
\* interior; the links form no cycle.
TablePages == {1, 2, 3}

childLists ==
    {<<>>} \cup {<<a>> : a \in TablePages} \cup {<<a, b>> : a, b \in TablePages}

tableOf(ch) ==
    [p \in DOMAIN ch |->
        [newNode(p, IF ch[p] = <<>> THEN 1 ELSE 0) EXCEPT !.children = ch[p]]]

childrenOf(ns, ps) ==
    UNION {{ns[p].children[i] : i \in 1 .. Len(ns[p].children)} :
           p \in ps \cap DOMAIN ns}

RECURSIVE descendants(_, _, _)
descendants(ns, ps, k) ==
    IF k = 0 THEN ps
    ELSE descendants(ns, ps \cup childrenOf(ns, ps), k - 1)

acyclic(ns) ==
    \A p \in DOMAIN ns :
        p \notin descendants(ns, childrenOf(ns, {p}), Cardinality(DOMAIN ns))

Tables ==
    {tableOf(ch) : ch \in {c \in UNION {[S -> childLists] : S \in SUBSET TablePages} :
                                acyclic(tableOf(c))}}

\* The application holding a linked table that has been laid out and painted
InitTable ==
    /\ \E w \in Widths, tbl \in Tables :
        /\ IsVis(draw(layout([constructor(w) EXCEPT !.nodes = tbl,
                                                     !.painted = <<>>])))
        /\ replica = draw(layout([constructor(w) EXCEPT
                        !.nodes = tbl, !.painted = <<>>,
                        !.showTransitions = FALSE]))
    /\ IsEM(newEventManager)
    /\ lastOp = Op("constructor", <<>>)
    /\ events_enabled = 1
    /\ app = newApp
    /\ registry = connectEvents /\ called = <<>>

\* Pages of a linked table freed and allocated again by the producer's events
NextTable ==
    \/ \E p \in TablePages : HandleEvent(PAGE_FREE, jsonText([page |-> p]))
    \/ \E p \in TablePages :
            HandleEvent(PAGE_ALLOCATE, jsonText([page |-> p, type |-> 1]))

SpecTable == InitTable /\ [][NextTable]_vars

\* Every node table with children lists over TablePages, cyclic ones
\* included.
AnyTables ==
    {tableOf(ch) : ch \in UNION {[S -> childLists] : S \in SUBSET TablePages}}

\* The application holding a linked table on which layout() and draw() have
\* been called
InitAnyTable ==
    /\ \E w \in Widths, tbl \in AnyTables :
        /\ IsVis(draw(layout([constructor(w) EXCEPT !.nodes = tbl,
                                                     !.painted = <<>>])))
        /\ replica = [constructor(w) EXCEPT !.showTransitions = FALSE]
    /\ IsEM(newEventManager)
    /\ lastOp = Op("layout", <<>>)
    /\ events_enabled = 1
    /\ app = newApp
    /\ registry = connectEvents /\ called = <<>>

SpecAnyTable == InitAnyTable /\ [][NextTable]_vars

\* Pages allocated, filled and freed, the root among them.
NextPages ==
    \/ \E p \in TablePages, t \in PageTypes : AddPage(p, t)
    \/ \E p \in DOMAIN nodes, k \in KeyLens : AddCell(p, 0, k)
    \/ \E p \in DOMAIN nodes : FreePage(p)

SpecPages == InitStore /\ [][NextPages]_vars

\* The application driven by well-formed events, with the event log and the
\* visualization cleared in between.
NextCounter ==
    \/ NextOrder
    \/ Clear

SpecCounter == InitApp /\ [][NextCounter]_vars

\* the canvas widths a resize chooses from
ResizeWidths == {800, 1000}

\* the pointer positions tried: (60, 30) over the nodes left at the origin,
\* (430, 80) over the root at either width, the other two over no node
PointerXs == {60, 430}

PointerYs == {30, 80}

\* The application with pages allocated and filled, and the pointer moved
\* and clicked over the canvas, which is resized in between; no timer runs,
\* so the highlights stay.
NextPointer ==
    \/ \E p \in Pages : AddPage(p, 1)
    \/ \E p \in Pages : AddCell(p, 0, 16)
    \/ \E x \in PointerXs, y \in PointerYs : MouseMove(x, y)
    \/ \E x \in PointerXs, y \in PointerYs : Click(x, y)
    \/ \E w \in ResizeWidths : Resize(w)

SpecPointer == InitApp /\ [][NextPointer]_vars

\* the calls the instrumented engine makes to the bridge's hooks
hookCalls ==
    {btree_open_event(defaultPageSize, 1), btree_balance_event(1, 1),
     btree_split_event(1, 2, 1), btree_split_event(2, 1, 0),
     parse_complete_event(1), vdbe_start_event(1), vdbe_complete_event(0)}
    \cup {btree_insert_event(p, 0, 16) : p \in Pages}
    \cup {btree_delete_event(p, 0) : p \in Pages}
    \cup {page_allocate_event(p, 1) : p \in Pages}
    \cup {page_free_event(p) : p \in Pages}

\* the flag values JavaScript passes to set_events_enabled
Flags == {0, 1}

\* The application fed by the bridge's hooks, highlights switched off, with
\* event emission switched off and on and the event log cleared in between.
NextBridge ==
    \/ \E m \in hookCalls : Emit(m)
    \/ \E v \in Flags : SetEventsEnabled(v)
    \/ ClearEvents

SpecBridge == InitStore /\ [][NextBridge]_vars

\* SQL texts the editor holds: at most MaxSql characters
SqlTexts == UNION {[1 .. n -> Chars] : n \in 0 .. MaxSql}

\* what sqlite3_exec returns: SQLITE_OK or an error code
ExecResults == {0, 1}

\* The application, in mock mode until the module is loaded: statements
\* executed from the editor, their timers run, and the log and the store
\* cleared for the next statement.
NextSql ==
    \/ \E input \in SqlTexts, result \in ExecResults : ExecuteSQL(input, result)
    \/ InitSQLite
    \/ \E t \in app.pending : MockInsert(t)
    \/ ClearEvents
    \/ Clear

SpecSql == InitStore /\ [][NextSql]_vars

\* the strings the engine passes to the hooks: one or two characters, a
\* long run of letters among them
HookTexts ==
    UNION {[1 .. n -> {quote, backslash, lineBreak, "SELECT", longRun}] :
                n \in 1 .. 2}

\* the calls the engine makes to the hooks that send strings
textHookCalls ==
    {parse_start_event(t) : t \in HookTexts}
    \cup {parse_token_event(t, 1) : t \in HookTexts}
    \cup {vdbe_opcode_event(0, t, 0, 0, 0) : t \in HookTexts}

\* The application fed by the hooks that send strings.
NextBridgeText ==
    \/ \E m \in textHookCalls : Emit(m)
    \/ ClearEvents

SpecBridgeText == InitStore /\ [][NextBridgeText]_vars

\* The event manager with a callback registered for the allocation and the
\* balance event, after the listeners of connectEvents, and another for
\* every event, and well-formed events handled.
NextDispatch ==
    \/ \E c \in {PAGE_ALLOCATE, BTREE_BALANCE} : On(c, "first")
    \/ OnAll("second")
    \/ \E c \in {PAGE_ALLOCATE, BTREE_BALANCE} :
            \E d \in payloads(c) : HandleObserved(c, d)
    \/ ClearEvents

SpecDispatch == InitStore /\ [][NextDispatch]_vars

\* The store fed only Allocate, Insert and Delete records whose page is live
\* and whose cell index is in range when the record arrives.
NextValid ==
    \/ \E p \in Pages, t \in PageTypes : AddPage(p, t)
    \/ \E p \in DOMAIN nodes, k \in KeyLens :
            \E i \in 0 .. Len(nodes[p].cells) : AddCell(p, i, k)
    \/ \E p \in DOMAIN nodes :
            \E i \in 0 .. Len(nodes[p].cells) - 1 : DeleteCell(p, i)

SpecValid == InitStore /\ [][NextValid]_vars

\* The store fed the records of NextValid, Split records from a live page to
\* another page at a split index within the page's cells, and Free records
\* of live pages.
NextRecords ==
    \/ NextValid
    \/ \E p \in DOMAIN nodes : FreePage(p)
    \/ \E p \in DOMAIN nodes : \E q \in Pages \ {p} :
            \E i \in 0 .. Len(nodes[p].cells) : SplitPage(p, q, i)

SpecRecords == InitStore /\ [][NextRecords]_vars

\* The store fed the records of NextValid and Split records from a live page
\* to any page, the page itself included, at a split index within the cells.
NextSplit ==
    \/ NextValid
    \/ \E p \in DOMAIN nodes : \E q \in Pages :
            \E i \in 0 .. Len(nodes[p].cells) : SplitPage(p, q, i)

SpecSplit == InitStore /\ [][NextSplit]_vars

----------------------------------------------------------------------------
(* Properties *)

\* the stored index fields of a cell list are 0 .. k-1 in list order
contiguous(cells) == \A j \in 1 .. Len(cells) : cells[j].idx = j - 1

\* the key lengths of a cell list, in list order
keyLensOf(cells) == [j \in 1 .. Len(cells) |-> cells[j].keyLen]

\* what the claims call the node store: the live pages, their kind and cells
storeOf(ns) == [p \in DOMAIN ns |-> [type |-> ns[p].type, cells |-> ns[p].cells]]

\* a node without its position, which layout() owns
dataOf(node) == [node EXCEPT !.x = 0, !.y = 0]

\* C1: Contiguity invariant. After any sequence of Allocate, Insert and
\* Delete records with valid page and cell addressing, the stored index
\* fields of every live node's cells are exactly 0 .. k-1 in list order.
C1_Contiguity == \A p \in DOMAIN nodes : contiguous(nodes[p].cells)

\* C2: Split(P, Q, s) on a live node P whose n cells carry the indexes
\* 0 .. n-1, with 0 <= s <= n and Q # P, leaves P with its first s cells and Q with the other n - s cells in their
\* order, and the index fields of both nodes' cells run from 0 without a gap.
C2_SplitReindexes ==
    [][\A p \in DOMAIN nodes : \A q \in Pages \ {p} : \A s \in CellIdxs :
        (/\ lastOp' = Op("splitPage", <<p, q, s>>)
         /\ 0 <= s /\ s <= Len(nodes[p].cells)
         /\ contiguous(nodes[p].cells))
        => /\ {p, q} \subseteq DOMAIN nodes'
           /\ keyLensOf(nodes'[p].cells) = keyLensOf(SubSeq(nodes[p].cells, 1, s))
           /\ keyLensOf(nodes'[q].cells) =
                keyLensOf(SubSeq(nodes[p].cells, s + 1, Len(nodes[p].cells)))
           /\ contiguous(nodes'[p].cells)
           /\ contiguous(nodes'[q].cells)]_vars

\* C3: Delete(p, i) on a live node whose n cells carry the indexes 0 .. n-1,
\* with 0 <= i < n, leaves the n - 1 other cells in their order, and the
\* cells that stood at i+1 .. n-1 carry the indexes i .. n-2: after
\* Allocate(p), Insert(p,0,a), Insert(p,1,b), Delete(p,0) the node holds one
\* cell, of key length b and index 0.
C3_DeleteShifts ==
    [][\A p \in DOMAIN nodes, i \in CellIdxs :
        (/\ lastOp' = Op("deleteCell", <<p, i>>)
         /\ 0 <= i /\ i < Len(nodes[p].cells)
         /\ contiguous(nodes[p].cells))
        => /\ p \in DOMAIN nodes'
           /\ keyLensOf(nodes'[p].cells) =
                keyLensOf(SubSeq(nodes[p].cells, 1, i)
                          \o SubSeq(nodes[p].cells, i + 2, Len(nodes[p].cells)))
           /\ contiguous(nodes'[p].cells)]_vars

\* C4: An event whose payload does not parse is discarded without an error
\* leaving the event entry point: the call returns normally and the node
\* store, the highlight set and the recorded event list are unchanged.
C4_MalformedDiscarded ==
    [][\A c \in EventCodes :
        HandleEvent(c, garbageText)
        => /\ ~threw'
           /\ nodes' = nodes
           /\ highlightedNodes' = highlightedNodes
           /\ events' = events]_vars

\* C5: An event whose code is none of the tree-mutating codes (2, 3, 4, 6, 7)
\* leaves the node store and the highlight set unchanged and does not fail.
C5_OtherCodesFrame ==
    [][\A c \in EventCodes \ MutatingCodes : \A d \in payloads(c) :
        HandleEvent(c, d)
        => /\ nodes' = nodes
           /\ highlightedNodes' = highlightedNodes
           /\ ~threw'
           /\ fault' = "none"]_vars

\* an event of an unknown code was handled while the store held a
\* highlighted node
C5_Witness ==
    /\ lastOp = Op("handleEvent", <<99>>)
    /\ events # <<>> /\ events[Len(events)].typeName = "UNKNOWN"
    /\ highlightedNodes \cap DOMAIN nodes # {}
    /\ ~threw

\* C6: A highlight made at time T by an insert or a delete under speed s
\* keeps its page in the highlight set at every time before T + 500/s,
\* whatever highlights on the page came before it, and the page is out of
\* the set from T + 600/s on while no later highlight is made on it.
\* Stated of the latest highlight on each page, which is what created holds.
C6_HighlightTimeBoxed ==
    \A c \in created :
        /\ c.age * c.speed < insertHighlightMs * 10 => c.page \in highlightedNodes
        /\ observed(c) => c.page \notin highlightedNodes

\* C7: Right after clear() the node store and the highlight set are empty,
\* and a callback scheduled before the clear() removes no highlight when it
\* runs after it.
C7_ClearCancels ==
    /\ lastOp.op = "clear" => DOMAIN nodes = {} /\ highlightedNodes = {}
    /\ lastOp.op = "timeout" /\ lastOp.stale => lastOp.removed = {}

\* C8: Every draw() paints the node store as it is before or after the
\* whole operation that calls it, laid out: no paint shows a store that a
\* mutation has applied in part.
C8_PaintsWholeMutations ==
    [][\A i \in 1 .. Len(painted') : painted'[i].nodes \in {nodes, nodes'}]_vars

\* C9: After a Free(pageId) event the store does not hold pageId, every
\* other node is as it was (its position aside, which layout() recomputes),
\* children entries naming pageId are kept, and layout and paint pass over
\* them without failing: no line is drawn to pageId.
C9_FreeLeavesDangling ==
    [][\A p \in TablePages :
        HandleEvent(PAGE_FREE, jsonText([page |-> p]))
        => /\ DOMAIN nodes' = DOMAIN nodes \ {p}
           /\ \A q \in DOMAIN nodes' : dataOf(nodes'[q]) = dataOf(nodes[q])
           /\ fault' = "none" /\ ~threw'
           /\ Len(painted') = 1
           /\ painted'[1].nodes = nodes'
           /\ \A l \in painted'[1].lines : l[2] # p /\ l[1] # p]_vars

\* a page named in a live node's children list has just been freed, and the
\* table was laid out and painted
C9_Witness ==
    /\ lastOp = Op("handleEvent", <<PAGE_FREE>>)
    /\ \E q \in DOMAIN nodes :
          /\ events[Len(events)].data.page \in childrenOf(nodes, {q})
          /\ events[Len(events)].data.page \notin DOMAIN nodes
          /\ q \in descendants(nodes, {rootPage}, Cardinality(DOMAIN nodes))
    /\ rootPage \in DOMAIN nodes
    /\ Len(painted) = 1 /\ fault = "none"

\* C10: Determinism. The store and the replica, an independent store that
\* has been given the same mutations with highlights switched off and no
\* timer running, hold the same pages with the same kind and the same cells.
C10_Deterministic == storeOf(nodes) = storeOf(replica.nodes)

\* both stores hold cells in two pages after a split, and the last step ran
\* a highlight's expiry callback in the store only
C10_Witness ==
    /\ lastOp.op = "timeout" /\ lastOp.removed # {}
    /\ \A p \in Pages : p \in DOMAIN nodes /\ nodes[p].cells # <<>>
    /\ replica.timeouts = {} /\ replica.highlightedNodes = {}

\* the page a tree-mutating payload addresses
addressedPage(c, d) ==
    IF c = BTREE_SPLIT THEN d.value.originalPage ELSE d.value.page

\* C11: An Insert, Delete or Split addressed to a page that is not in the
\* store leaves the node store and the highlight set as they are and does not
\* fail.
C11_AbsentPageNoOp ==
    [][\A c \in {BTREE_INSERT, BTREE_DELETE, BTREE_SPLIT} : \A d \in payloads(c) :
        (HandleEvent(c, d) /\ addressedPage(c, d) \notin DOMAIN nodes)
        => /\ nodes' = nodes
           /\ highlightedNodes' = highlightedNodes
           /\ timeouts' = timeouts
           /\ ~threw' /\ fault' = "none"]_vars

\* a split addressed to the freed root has been handled while another page
\* is live and a highlight is showing
C11_Witness ==
    /\ lastOp = Op("handleEvent", <<BTREE_SPLIT>>)
    /\ rootPage \notin DOMAIN nodes /\ DOMAIN nodes # {}
    /\ highlightedNodes # {}
    /\ ~threw

\* C12: Delete(p, i) on a live node p of n cells with i < 0 or i >= n leaves
\* the node's cell list as it is.
C12_DeleteOutOfRange ==
    [][\A p \in DOMAIN nodes : \A i \in CellIdxs :
        (/\ lastOp' = Op("deleteCell", <<p, i>>)
         /\ (i < 0 \/ i >= Len(nodes[p].cells)))
        => /\ p \in DOMAIN nodes'
           /\ nodes'[p].cells = nodes[p].cells]_vars

\* C13: Allocate(pageId, kind) leaves a node for pageId of that kind with no
\* cells, whether or not pageId was live, raises no error, and leaves every
\* other node as it is.
C13_AllocateReplaces ==
    [][\A p \in Pages : \A t \in PageTypes :
        lastOp' = Op("addPage", <<p, t>>)
        => /\ DOMAIN nodes' = DOMAIN nodes \cup {p}
           /\ nodes'[p].page = p /\ nodes'[p].type = t /\ nodes'[p].cells = <<>>
           /\ \A q \in DOMAIN nodes \ {p} : nodes'[q] = nodes[q]
           /\ fault' = "none"]_vars

\* a page has just been allocated, it holds no cell, and the other page
\* holds the cells it had
C13_Witness ==
    /\ lastOp.op = "addPage"
    /\ nodes[lastOp.args[1]].cells = <<>>
    /\ \E q \in DOMAIN nodes : Len(nodes[q].cells) = MaxCells

\* C14: Split(from, to, s) allocates a node for to, of the kind of from, only
\* when to is not live; a live to is not allocated again and keeps its kind,
\* its children and its expanded flag.
C14_SplitKeepsLiveTarget ==
    [][\A p \in DOMAIN nodes : \A q \in Pages \ {p} : \A s \in CellIdxs :
        lastOp' = Op("splitPage", <<p, q, s>>)
        => /\ q \in DOMAIN nodes'
           /\ q \notin DOMAIN nodes => nodes'[q].type = nodes[p].type
           /\ q \in DOMAIN nodes =>
                /\ nodes'[q].type = nodes[q].type
                /\ nodes'[q].children = nodes[q].children
                /\ nodes'[q].expanded = nodes[q].expanded]_vars

C16_NoHighlightWhenOff ==
    [][(~showTransitions /\ lastOp'.op \in {"addCell", "deleteCell", "splitPage"})
        => /\ highlightedNodes' \subseteq highlightedNodes
           /\ timeouts' = timeouts]_vars

\* a cell has just been inserted with transitions switched off, and no page
\* is highlighted
C16_Witness ==
    /\ lastOp.op = "addCell" /\ ~showTransitions
    /\ rootPage \in DOMAIN nodes /\ nodes[rootPage].cells # <<>>
    /\ highlightedNodes = {}

\* C17: Highlights are additive. The node store equals that of the replica,
\* which is given the same mutations with transitions off, the speed never
\* changed and no timer, and an expiry callback changes nothing but the
\* highlight set.
C17_HighlightsAdditive ==
    [][/\ storeOf(nodes') = storeOf(replica'.nodes)
       /\ lastOp'.op = "timeout"
            => /\ nodes' = nodes /\ pageCount' = pageCount
               /\ showTransitions' = showTransitions
               /\ animationSpeed' = animationSpeed
               /\ pageSize' = pageSize /\ fault' = "none"]_vars

\* an expiry callback has just ended a highlight under the doubled speed,
\* with cells in both pages of a split
C17_Witness ==
    /\ lastOp.op = "timeout" /\ lastOp.removed # {}
    /\ animationSpeed = 20 /\ replica.animationSpeed = 10
    /\ \A p \in Pages : p \in DOMAIN nodes /\ nodes[p].cells # <<>>

\* the timer an operation schedules for pages ps with the base duration base
scheduled(ps, base) ==
    {t \in [pages : {ps}, remaining : 0 .. base, stale : {FALSE}] :
        t.remaining * animationSpeed = base * 10}

\* C18: With showTransitions true, an applied Insert or Delete on page p adds
\* p to the highlight set with an expiry after 500 / speed, an applied
\* Split(from, to, s) adds from and to with an expiry after 1000 / speed, and
\* Allocate and Free add no highlight and no timer.
C18_HighlightPerMutation ==
    [][showTransitions =>
        /\ \A p \in DOMAIN nodes :
            (\/ lastOp'.op = "addCell" /\ lastOp'.args[1] = p
             \/ /\ lastOp'.op = "deleteCell" /\ lastOp'.args[1] = p
                /\ lastOp'.args[2] \in 0 .. Len(nodes[p].cells) - 1)
            => /\ highlightedNodes' = highlightedNodes \cup {p}
               /\ timeouts' = timeouts \cup scheduled({p}, insertHighlightMs)
               /\ scheduled({p}, insertHighlightMs) # {}
        /\ \A p \in DOMAIN nodes :
            (lastOp'.op = "splitPage" /\ lastOp'.args[1] = p)
            => /\ highlightedNodes' = highlightedNodes \cup {p, lastOp'.args[2]}
               /\ timeouts' = timeouts
                    \cup scheduled({p, lastOp'.args[2]}, splitHighlightMs)
               /\ scheduled({p, lastOp'.args[2]}, splitHighlightMs) # {}
        /\ lastOp'.op \in {"addPage", "pageFree"}
            => highlightedNodes' = highlightedNodes /\ timeouts' = timeouts]_vars

\* a split has just been applied under the doubled speed: both pages are
\* highlighted and their timer is due in 500 ms
C18_Witness ==
    /\ lastOp.op = "splitPage" /\ showTransitions /\ animationSpeed = 20
    /\ highlightedNodes = {1, 2}
    /\ [pages |-> {1, 2}, remaining |-> 500, stale |-> FALSE] \in timeouts

\* C19: Sequence ids are strictly increasing over handleEvent and clear()
\* calls. An event that is recorded gets the counter's value as its id,
\* whatever its payload, and after every call the counter, which is the id
\* of the next event, is greater than the id of every event recorded before.
C19_IdsIncrease ==
    [][/\ \A i \in 1 .. Len(events) : eventCount' > events[i].id
       /\ \A c \in EventCodes : \A d \in payloads(c) :
            (HandleEvent(c, d) /\ Len(events') = Len(events) + 1)
            => /\ events'[Len(events')].id = eventCount
               /\ \A i \in 1 .. Len(events) :
                    events'[Len(events')].id > events[i].id]_vars

\* what applying the record of code c with payload data does to a visualizer
applyRecord(V, c, data) ==
    CASE c = BTREE_OPEN -> [V EXCEPT !.pageSize = data.pageSize]
      [] c = PAGE_ALLOCATE -> addPage(V, data.page, data.type)
      [] c = PAGE_FREE -> pageFree(V, data.page)
      [] c = BTREE_INSERT -> addCell(V, data.page, data.cell, data.keyLen)
      [] c = BTREE_DELETE -> deleteCell(V, data.page, data.cell)
      [] c = BTREE_SPLIT ->
            splitPage(V, data.originalPage, data.newPage, data.splitCell)
      [] OTHER -> V

\* C20: Events are applied in arrival order, one at a time. A handleEvent
\* call appends its event at the end of the recorded list; when it returns,
\* the store is the store before the call with this one record applied to
\* it, once, laid out and painted; so the store after n calls is the
\* records 1 .. n applied in order.
C20_ArrivalOrder ==
    [][\A c \in EventCodes : \A d \in payloads(c) :
        HandleEvent(c, d)
        => /\ Len(events') = Len(events) + 1
           /\ SubSeq(events', 1, Len(events)) = events
           /\ events'[Len(events')].type = c
           /\ events'[Len(events')].data = d.value
           /\ LET V == applyRecord(begin(Vis), c, d.value)
              IN  /\ nodes' = V.nodes
                  /\ highlightedNodes' = V.highlightedNodes
                  /\ timeouts' = V.timeouts
                  /\ painted' = V.painted
           /\ c \in MutatingCodes /\ painted' # <<>>
                => painted'[Len(painted')].nodes = nodes'
           /\ pageCount' = Cardinality(DOMAIN nodes')
           /\ fault' = "none" /\ ~threw']_vars

\* a split event has just been applied as the second event of the recorded
\* list, and both of its pages hold cells
C20_Witness ==
    /\ lastOp = Op("handleEvent", <<BTREE_SPLIT>>)
    /\ Len(events) = 2 /\ events[2].type = BTREE_SPLIT
    /\ events[1].id < events[2].id
    /\ \A p \in Pages : p \in DOMAIN nodes /\ nodes[p].cells # <<>>
    /\ Len(painted) = 2

\* C21: With only the root in the store, layout centres the root's rectangle
\* in the drawing width (x + nodeWidth / 2 = W / 2) and puts it at the top
\* margin.
C21_RootCentred ==
    DOMAIN nodes = {rootPage}
    => /\ 2 * nodes[rootPage].x + nodeWidth = clientWidth
       /\ nodes[rootPage].y = topMargin

\* the levels the layout traversal computes for the node table ns
levelsOf(ns) == buildLevels(ns, rootPage).levels

intersect(a, b) ==
    /\ a.x <= b.x + nodeWidth /\ b.x <= a.x + nodeWidth
    /\ a.y <= b.y + nodeHeight /\ b.y <= a.y + nodeHeight

\* C23: After layout no two distinct live nodes have intersecting
\* rectangles.
C23_NoOverlap ==
    \A p \in DOMAIN nodes : \A q \in DOMAIN nodes \ {p} :
        ~intersect(nodes[p], nodes[q])

\* C24: After every public operation and every handled event, page-free
\* included, the page-count display shows the number of nodes in the store.
C24_CounterCurrent == pageCount = Cardinality(DOMAIN nodes)

\* the root has just been freed by an event while page 2 is live: the
\* display shows one page
C24_Witness ==
    /\ lastOp = Op("handleEvent", <<PAGE_FREE>>)
    /\ DOMAIN nodes = {2} /\ pageCount = 1
    /\ ~threw

C30_HighlightsLive == highlightedNodes \subseteq DOMAIN nodes

\* the tree data of the node table ns: everything but the expanded flags and
\* the positions
treeData(ns) ==
    [p \in DOMAIN ns |->
        [page |-> ns[p].page, type |-> ns[p].type, cells |-> ns[p].cells,
         parent |-> ns[p].parent, children |-> ns[p].children]]

expandedOf(ns) == [p \in DOMAIN ns |-> ns[p].expanded]

\* C25: A mouse move changes no field of any node. A click changes no tree
\* data (page ids, kinds, cells, parents, children) and not the highlight
\* set; with a node under the pointer it negates that node's expanded flag
\* and no other, and a second click on the node gives the flag the value it
\* had before the first.
C25_PointerKeepsTree ==
    [][/\ lastOp'.op = "mousemove" => nodes' = nodes
       /\ lastOp'.op = "click" =>
            /\ treeData(nodes') = treeData(nodes)
            /\ highlightedNodes' = highlightedNodes
            /\ timeouts' = timeouts
            /\ Len(lastOp'.args) = 2 => nodes' = nodes
            /\ Len(lastOp'.args) = 4 =>
                    LET p == lastOp'.args[3]
                    IN  /\ p \in getNodeAtPosition(Vis, lastOp'.args[1],
                                                     lastOp'.args[2])
                        /\ expandedOf(nodes') =
                             [expandedOf(nodes) EXCEPT ![p] = ~@]
                        /\ (lastOp.op = "click" /\ Len(lastOp.args) = 4
                              /\ lastOp.args[3] = p)
                             => nodes'[p].expanded = (lastOp.args[4] = 1)
      ]_vars

\* a node that holds a cell and is highlighted has been clicked twice in a
\* row and is expanded again
C25_Witness ==
    /\ lastOp.op = "click" /\ Len(lastOp.args) = 4
    /\ lastOp.args[4] = 0
    /\ nodes[lastOp.args[3]].expanded
    /\ nodes[lastOp.args[3]].cells # <<>>
    /\ lastOp.args[3] \in highlightedNodes

\* the name the protocol gives to the event a hook reports
protocolName(hook) ==
    CASE hook = "btree_open_event" -> "BTREE_OPEN"
      [] hook = "btree_insert_event" -> "BTREE_INSERT"
      [] hook = "btree_delete_event" -> "BTREE_DELETE"
      [] hook = "btree_split_event" -> "BTREE_SPLIT"
      [] hook = "btree_balance_event" -> "BTREE_BALANCE"
      [] hook = "page_allocate_event" -> "PAGE_ALLOCATE"
      [] hook = "page_free_event" -> "PAGE_FREE"
      [] hook = "parse_complete_event" -> "PARSE_COMPLETE"
      [] hook = "vdbe_start_event" -> "VDBE_START"
      [] OTHER -> "VDBE_COMPLETE"

\* the store operation the protocol attaches to a hook called with args
protocolOperation(V, hook, args) ==
    CASE hook = "btree_insert_event" -> addCell(V, args[1], args[2], args[3])
      [] hook = "btree_delete_event" -> deleteCell(V, args[1], args[2])
      [] hook = "btree_split_event" -> splitPage(V, args[1], args[2], args[3])
      [] hook = "page_allocate_event" -> addPage(V, args[1], args[2])
      [] hook = "page_free_event" ->
            draw(layout([V EXCEPT !.nodes = mapDelete(@, args[1])]))
      [] hook = "btree_open_event" -> [V EXCEPT !.pageSize = args[1]]
      [] OTHER -> V

\* C26: Producer and consumer agree on the protocol. The producer's codes
\* are the consumer's, and the event a hook emits is recorded under the
\* protocol's name for it and results in the store operation of that hook
\* on the hook's arguments: insert in addCell, delete in deleteCell, split in
\* splitPage, allocate in addPage, free in the page's removal.
C26_ProtocolAgreement ==
    [][\A m \in hookCalls :
        Emit(m)
        => /\ <<EVENT_BTREE_OPEN, EVENT_BTREE_CLOSE, EVENT_BTREE_INSERT,
                EVENT_BTREE_DELETE, EVENT_BTREE_SPLIT, EVENT_BTREE_BALANCE,
                EVENT_PAGE_ALLOCATE, EVENT_PAGE_FREE, EVENT_PARSE_START,
                EVENT_PARSE_TOKEN, EVENT_PARSE_COMPLETE, EVENT_VDBE_START,
                EVENT_VDBE_OPCODE, EVENT_VDBE_COMPLETE>>
              = <<BTREE_OPEN, BTREE_CLOSE, BTREE_INSERT, BTREE_DELETE,
                  BTREE_SPLIT, BTREE_BALANCE, PAGE_ALLOCATE, PAGE_FREE,
                  PARSE_START, PARSE_TOKEN, PARSE_COMPLETE, VDBE_START,
                  VDBE_OPCODE, VDBE_COMPLETE>>
           /\ Len(events') = Len(events) + 1
           /\ events'[Len(events')].typeName = protocolName(m.hook)
           /\ LET V == protocolOperation(begin(Vis), m.hook, m.args)
              IN  /\ nodes' = V.nodes
                  /\ pageSize' = V.pageSize
                  /\ highlightedNodes' = V.highlightedNodes
                  /\ painted' = V.painted
                  /\ pageCount' = V.pageCount
           /\ fault' = "none" /\ ~threw']_vars

\* btree_split_event(1, 2, 1) has moved the second cell of page 1 to the new
\* page 2
C26_Witness ==
    /\ lastOp = Op("btree_split_event", <<1, 2, 1>>)
    /\ DOMAIN nodes = {1, 2}
    /\ Len(nodes[1].cells) = 1 /\ Len(nodes[2].cells) = 1
    /\ events # <<>> /\ events[Len(events)].typeName = "BTREE_SPLIT"

\* the steps in which a bridge hook is called
hookNames == {m.hook : m \in hookCalls}

\* C28: While event emission is switched off (set_events_enabled(0) was the
\* last setting), no hook delivers an event to the JavaScript handler: the
\* event manager records nothing and the store is not changed; and
\* get_events_enabled returns the value last set.
C28_DisabledEmitsNothing ==
    [][/\ (events_enabled = 0 /\ lastOp'.op \in hookNames)
            => /\ events' = events /\ eventCount' = eventCount
               /\ nodes' = nodes
       /\ lastOp'.op = "set_events_enabled"
            => get_events_enabled(events_enabled') = lastOp'.args[1]]_vars

\* page p is not highlighted and the step that ended its highlight has
\* repainted the tree without it
expired(p) ==
    /\ p \notin highlightedNodes
    /\ painted # <<>>
    /\ p \notin painted[Len(painted)].highlighted

\* C29: Every highlight eventually expires. With a positive animation speed
\* and timers that eventually fire, a page that is in the highlight set is
\* eventually out of it, with a repaint that shows it without the highlight.
C29_HighlightExpires ==
    \A p \in Pages : (p \in highlightedNodes) ~> expired(p)

\* the timer of a highlight on page 1 has just run: the page has left the
\* highlight set and the tree was repainted
C29_Witness ==
    /\ lastOp.op = "timeout" /\ 1 \in lastOp.removed
    /\ expired(1)
    /\ animationSpeed > 0

\* the cells the pages P and Q of the node table ns hold together, P's first
cellsOfBoth(ns, P, Q) ==
    IF P = Q THEN ns[P].cells ELSE ns[P].cells \o ns[Q].cells

\* C31: Split conserves cells. After splitPage(P, Q, s) on a live page P
\* with n cells and 0 <= s <= n, whatever Q is (absent, live, or P itself),
\* P and Q together hold exactly the n cells P held before.
C31_SplitConserves ==
    [][\A P \in DOMAIN nodes : \A Q \in Pages :
        \A spl \in 0 .. Len(nodes[P].cells) :
            SplitPage(P, Q, spl)
            => cellsOfBoth(nodes', P, Q) = nodes[P].cells]_vars

\* the base duration of the highlight the operation op starts
baseOf(op) == IF op = "splitPage" THEN splitHighlightMs ELSE insertHighlightMs

\* C32: A highlight's expiry delay is fixed when it is created, from the
\* animationSpeed in effect then. setAnimationSpeed changes the speed and no
\* pending timer; a mutation leaves the pending timers as they are and gives
\* the timer it adds the delay base / speed of the speed now in effect.
C32_DelayFixedAtCreation ==
    [][/\ lastOp'.op = "setAnimationSpeed"
            => /\ animationSpeed' = lastOp'.args[1]
               /\ timeouts' = timeouts
               /\ highlightedNodes' = highlightedNodes
       /\ lastOp'.op \in {"addCell", "deleteCell", "splitPage"}
            => /\ timeouts \subseteq timeouts'
               /\ \A t \in timeouts' \ timeouts :
                    t.remaining * animationSpeed = baseOf(lastOp'.op) * 10
      ]_vars

\* the slider has just been moved to the doubled speed while a highlight
\* created at speed 1.0 is pending with its 500 ms, and a highlight created
\* after an earlier move to the doubled speed is pending with 250 ms
C32_Witness ==
    /\ lastOp = Op("setAnimationSpeed", <<20>>)
    /\ animationSpeed = 20
    /\ \E t \in timeouts : t.pages = {1} /\ t.remaining = 500
    /\ \E t \in timeouts : t.pages = {1} /\ t.remaining = 250

\* C33: No event or public operation ever links nodes. In every reachable
\* state every node has an empty children list and a null parent, the layout
\* traversal places the root page alone, and every other node is at the
\* position (0, 0) it was created with.
C33_NeverLinked ==
    /\ \A p \in DOMAIN nodes :
        /\ nodes[p].children = <<>>
        /\ nodes[p].parent = "null"
        /\ p # rootPage => nodes[p].x = 0 /\ nodes[p].y = 0
    /\ rootPage \in DOMAIN nodes => levelsOf(nodes) = <<<<rootPage>>>>

\* page 1 has just been split into page 2: both hold a cell, the root is
\* placed and page 2 is at the origin
C33_Witness ==
    /\ lastOp.op = "splitPage" /\ lastOp.args[1] = 1 /\ lastOp.args[2] = 2
    /\ DOMAIN nodes = {1, 2}
    /\ nodes[1].cells # <<>> /\ nodes[2].cells # <<>>
    /\ nodes[1].y = topMargin /\ nodes[2].x = 0 /\ nodes[2].y = 0

\* C34: executeSQL runs every non-empty statement. For an editor text that is
\* not empty after trim(), whatever characters it holds, a PARSE_START event
\* is recorded first and the text is handed to executeMockSQL (no module
\* loaded) or to executeRealSQL; an error is shown only when the execution
\* itself fails.
C34_RunsEveryStatement ==
    [][\A input \in SqlTexts : \A result \in ExecResults :
        (ExecuteSQL(input, result) /\ trim(input) # <<>>)
        => /\ events' # <<>>
           /\ events'[1].typeName = "PARSE_START"
           /\ app'.calls =
                <<[fn |-> IF app.sqliteModule = "null" THEN "executeMockSQL"
                                                       ELSE "executeRealSQL",
                   sql |-> trim(input)]>>
           /\ app'.output = "error"
                => app.sqliteModule # "null" /\ result # 0]_vars

\* the type names of a list of recorded events, in list order
typeNamesOf(log) == [i \in DOMAIN log |-> log[i].typeName]

\* the cell indexes of the insert events of a list of events, in list order
RECURSIVE insertCellsOf(_)
insertCellsOf(log) ==
    IF log = <<>> THEN <<>>
    ELSE (IF Head(log).typeName = "BTREE_INSERT"
            THEN <<Head(log).data.cell>> ELSE <<>>) \o insertCellsOf(Tail(log))

\* the log of one statement in execution order
statementLog(sql) ==
    <<"PARSE_START">>
    \o (IF includes(sql, "CREATE TABLE") THEN <<"PAGE_ALLOCATE">> ELSE <<>>)
    \o [i \in 1 .. matches(sql, "INSERT INTO") |-> "BTREE_INSERT"]
    \o <<"PARSE_COMPLETE">>

\* C36: In mock mode the events of one statement are recorded in execution
\* order. When the statement's timers have run and all its events are
\* counted, the log is PARSE_START, PAGE_ALLOCATE if the text contains
\* CREATE TABLE, one insert event per INSERT INTO with the cell indexes
\* 0, 1, .., k-1, and PARSE_COMPLETE after the last of them.
C36_MockOrder ==
    (/\ app.calls # <<>> /\ app.calls[1].fn = "executeMockSQL"
     /\ app.pending = {}
     /\ eventCount = Len(statementLog(app.calls[1].sql)))
    => /\ typeNamesOf(events) = statementLog(app.calls[1].sql)
       /\ insertCellsOf(events) =
            [i \in 1 .. matches(app.calls[1].sql, "INSERT INTO") |-> i - 1]

\* C35: Every payload the bridge hands to the JavaScript handler is text the
\* event manager can parse, whatever strings the hooks are called with: the
\* handler does not throw and the event is recorded.
C35_PayloadsParse ==
    [][\A m \in textHookCalls \cup hookCalls :
        Emit(m) => ~threw' /\ Len(events') = Len(events) + 1]_vars

\* C37: The event counter matches the log. After any handleEvent and clear()
\* calls, with well-formed or malformed payloads, the counter and the
\* displayed count equal the number of recorded events, and the event at
\* list position i (from 0) has id i.
C37_CounterMatchesLog ==
    /\ eventCount = Len(events)
    /\ eventCountText = Len(events)
    /\ \A i \in DOMAIN events : events[i].id = i - 1

lastOf(log, k) == SubSeq(log, Len(log) - k + 1, Len(log))

\* C39: getRecentEvents(count) returns the last min(count, n) of the n
\* recorded events in arrival order, for every count >= 0; it never returns
\* more than count events.
C39_RecentEvents ==
    \A count \in 0 .. MaxEvents + 1 :
        /\ getRecentEvents(EM, count) = lastOf(events, Min(count, Len(events)))
        /\ Len(getRecentEvents(EM, count)) <= count

====
